---- MODULE Spec2Model ----
(***************************************************************************)
(* Request-forwarding engine of cli_proxy: channel catalog with its cache, *)
(* load-balance state (file and the proxy's in-memory copy), the proxy     *)
(* request handler with its streaming iterator, the live hub record of a   *)
(* request and the traffic log, together with the operator's handlers of   *)
(* the UI server that rewrite the catalog file and the LB file.            *)
(***************************************************************************)
EXTENDS Integers, Sequences, FiniteSets, TLC

\* ------------------------------------------------------------------ bounds
\* Requests handled in one behaviour of the streaming specification.
MaxRequests == 2
\* Requests handled in one behaviour of the load-balance specification.
MaxLbRequests == 3
\* Requests handled in one behaviour of the catalog specification.
MaxCatRequests == 1
\* Requests the operator makes of the UI server in one behaviour.
MaxOperatorOps == 2
\* Bytes of a request body the filter is applied to.
MaxBodyLen == 3
\* Upstream body: number of chunks and bytes per chunk.
MaxChunks == 2
MaxChunkLen == 2
\* Largest failureThreshold the operator saves.
MaxThreshold == 2
\* Entries written to the traffic log in one behaviour of the usage
\* specifications.
MaxInserts == 3
\* response_chunk calls on one hub record and the longest chunk of a call.
MaxHubChunks == 3
MaxHubChunkLen == 3

\* max_requests of the hub whose cap is checked (100 in the proxy's hub) and
\* the readings of the wall clock that datetime.now() gives.
MaxRecords == 2
MaxClock == 2

\* Requests whose results the _record_lb_result threads record, and writes
\* of the sibling proxy, in one behaviour.
MaxLbResults == 2
MaxSiblingWrites == 2

\* --------------------------------------------------------- program constants
\* self.max_logged_response_bytes (1 MiB in the source, scaled to bytes of
\* the model's short bodies so that the bound is crossed).
max_logged_response_bytes == 3
\* default failureThreshold of a service section
DefaultThreshold == 3
\* default logLimit of _maintain_log_limit (50 in the source, scaled)
max_logs == 2
\* response_chunk: the bound on a record's response_chunks (2 MiB in the
\* source, scaled) and the length of the truncation marker (scaled)
max_response_length == 4
truncation_marker_len == 1

None == "none"
NoVal == "absent"

\* The upstream body is a byte string without repetition, so that a lost, a
\* doubled or a reordered byte shows; its second byte is a blank (32), the
\* others are letters. The upstream cuts it into chunks of any lengths.
UpstreamByte(i) == IF i = 2 THEN 32 ELSE 64 + i
UpstreamBody(from, n) == [i \in 1..n |-> UpstreamByte(from + i)]

\* Status codes an upstream answers with.
Statuses == {200, 302, 500}
LbStatuses == {200, 500}

\* ------------------------------------------------------------ channel catalog
\* Python compares channel names as strings; NameOrd is that order.
AllNames == {"a", "b", "c"}
NameOrd(n) == CASE n = "a" -> 1 [] n = "b" -> 2 [] n = "c" -> 3 [] OTHER -> 0

\* A channel entry named n with the endpoint and credentials of owner.
ChanAs(n, owner, w, act) ==
  [name |-> n, base_url |-> "https://" \o owner, auth_token |-> "tok-" \o owner,
   api_key |-> NoVal, weight |-> w, active |-> act]
Chan(n, w, act) == ChanAs(n, n, w, act)

\* Catalog files (JSON objects, in file order) the operator saves.
CatEmpty == << >>
CatAB == << Chan("a", 1, TRUE), Chan("b", 3, FALSE) >>
CatBA == << Chan("b", 1, FALSE), Chan("a", 1, FALSE) >>
CatB == << Chan("b", 3, TRUE) >>
CatScenario4 == << Chan("a", 3, FALSE), Chan("b", 1, TRUE) >>
\* Three channels whose order by (-weight, name) is a, c, b
CatFailover == << Chan("a", 3, TRUE), Chan("b", 1, FALSE), Chan("c", 2, FALSE) >>
\* CatAB with a renamed to c and b deleted
CatRenamed == << ChanAs("c", "a", 1, TRUE) >>
Catalogs == {CatEmpty, CatAB, CatBA, CatB, CatScenario4, CatRenamed}
\* CatAB with the names a and b exchanged, and with a renamed to b while b
\* is renamed to c
CatSwap == << ChanAs("b", "a", 1, TRUE), ChanAs("a", "b", 3, FALSE) >>
CatChain == << ChanAs("b", "a", 1, TRUE), ChanAs("c", "b", 3, FALSE) >>
UsageCatalogs == {CatAB, CatSwap, CatChain, CatRenamed}

ConfigNames(configs) == {configs[i].name : i \in 1..Len(configs)}

\* configs.get(n), for a name that is a key
ConfigGet(configs, n) ==
  configs[CHOOSE j \in 1..Len(configs) : configs[j].name = n]

RECURSIVE load_entries(_)
load_entries(data) ==
  IF data = << >> THEN << >>
  ELSE LET config_data == Head(data)
           rest == load_entries(Tail(data))
       IN IF config_data.base_url # NoVal /\ config_data.auth_token # NoVal
          THEN << [name |-> config_data.name,
                   base_url |-> config_data.base_url,
                   auth_token |-> config_data.auth_token,
                   api_key |-> config_data.api_key] >> \o rest
          ELSE rest

RECURSIVE load_active(_, _)
load_active(data, active_config) ==
  IF data = << >> THEN active_config
  ELSE LET config_data == Head(data)
       IN load_active(Tail(data),
            IF config_data.base_url # NoVal /\ config_data.auth_token # NoVal
               /\ config_data.active
            THEN config_data.name ELSE active_config)

\* CachedConfigManager._load_configs_from_file: the entries keep base_url,
\* auth_token and api_key only; the active name is the last entry flagged
\* active, else the first key of the file.
load_configs_from_file(data) ==
  LET configs == load_entries(data)
      flagged == load_active(data, None)
  IN [configs |-> configs,
      active |-> IF flagged = None /\ configs # << >>
                 THEN configs[1].name ELSE flagged]

\* What the bytes of a catalog file parse to: a JSON object of channel
\* objects (the catalog the model holds in catalogFile), no JSON at all, a
\* JSON value that is not an object (a list), or a JSON object with an entry
\* that is not an object (a number).
FileShapes == {"catalog", "unparseable", "not_object", "entry_not_object"}

\* CachedConfigManager._load_configs_from_file with its except clause:
\* json.load raises JSONDecodeError on bytes that are no JSON, and the file
\* is rewritten as {}; data.items() on a list raises AttributeError and
\* 'base_url' in <number> raises TypeError, which the clause
\* except (json.JSONDecodeError, OSError) does not catch.
try_load_configs(shape, data) ==
  CASE shape = "catalog" ->
         [raised |-> FALSE, shape |-> shape, file |-> data,
          configs |-> load_configs_from_file(data).configs,
          active |-> load_configs_from_file(data).active]
    [] shape = "unparseable" ->
         [raised |-> FALSE, shape |-> "catalog", file |-> << >>,
          configs |-> << >>, active |-> None]
    [] OTHER ->
         [raised |-> TRUE, shape |-> shape, file |-> data,
          configs |-> << >>, active |-> None]

\* _save_configs writing the active flag of the named channel and leaving
\* nothing else of the flags as it was.
save_configs_flag_added(configs, active_config, data) ==
  [i \in 1..Len(configs) |->
     [name |-> configs[i].name, base_url |-> configs[i].base_url,
      auth_token |-> configs[i].auth_token, api_key |-> configs[i].api_key,
      weight |-> 0,
      active |-> configs[i].name = active_config
                 \/ ConfigGet(data, configs[i].name).active]]

\* CachedConfigManager._save_configs: the file written from the cached
\* configs, which hold base_url, auth_token and api_key; a weight is not
\* written (weight 0 stands for the absent key, as .get('weight', 0) reads
\* it). data is the file being replaced.
save_configs(configs, active_config, data) ==
  [i \in 1..Len(configs) |->
     [name |-> configs[i].name, base_url |-> configs[i].base_url,
      auth_token |-> configs[i].auth_token, api_key |-> configs[i].api_key,
      weight |-> 0, active |-> configs[i].name = active_config]]

\* ------------------------------------------------------------ model routing
\* str.strip() on the texts of the model: "m1 " and " b" carry a blank.
strip(text) ==
  CASE text = "m1 " -> "m1"
    [] text = " b" -> "b"
    [] text = " " -> ""
    [] OTHER -> text

\* _apply_config_mapping, line 520: some mapping has the body's model and
\* names a config, so that line 521 reads the catalog.
mapping_matches(mappings, model) ==
  \E i \in 1..Len(mappings) :
    /\ strip(mappings[i].model) # ""
    /\ strip(mappings[i].config) # ""
    /\ model = strip(mappings[i].model)

\* _apply_config_mapping naming the channel of a mapping whatever the
\* catalog holds.
RECURSIVE apply_config_mapping_unchecked(_, _, _)
apply_config_mapping_unchecked(mappings, model, configs) ==
  IF mappings = << >> THEN None
  ELSE LET mapped_model == strip(Head(mappings).model)
           target_config == strip(Head(mappings).config)
       IN IF mapped_model # "" /\ target_config # "" /\ model = mapped_model
          THEN target_config
          ELSE apply_config_mapping_unchecked(Tail(mappings), model, configs)

\* _apply_config_mapping, lines 515-531: the config_override, the stripped
\* config of the first mapping whose stripped model is the body's model and
\* whose stripped config is a key of config_manager.configs; None if there
\* is none. The body is returned as it came.
RECURSIVE apply_config_mapping(_, _, _)
apply_config_mapping(mappings, model, configs) ==
  IF mappings = << >> THEN None
  ELSE LET mapped_model == strip(Head(mappings).model)
           target_config == strip(Head(mappings).config)
       IN IF mapped_model # "" /\ target_config # "" /\ model = mapped_model
             /\ target_config \in ConfigNames(configs)
          THEN target_config
          ELSE apply_config_mapping(Tail(mappings), model, configs)

\* _apply_model_routing, lines 455-483, for the modes default and
\* config-mapping: a body without a model (or with an empty one) is not
\* routed.
apply_model_routing(routing, model, configs) ==
  IF routing.mode = "config-mapping" /\ model # NoVal /\ model # ""
  THEN apply_config_mapping(routing.configMappings, model, configs)
  ELSE None

\* A rule of modelMappings as save_routing_config writes it.
ModelRule(source_type, source, target) ==
  [source_type |-> source_type, source |-> source, target |-> target]

\* _apply_model_mapping, lines 489-499: the loop reaches a rule of
\* source_type config, so that _get_current_active_config is called.
RECURSIVE consults_config(_, _)
consults_config(mappings, model) ==
  IF mappings = << >> THEN FALSE
  ELSE LET source == strip(Head(mappings).source)
           target == strip(Head(mappings).target)
           source_type == strip(Head(mappings).source_type)
       IN IF source = "" \/ target = ""
          THEN consults_config(Tail(mappings), model)
          ELSE IF source_type = "config" THEN TRUE
          ELSE IF source_type = "model" /\ model = source THEN FALSE
          ELSE consults_config(Tail(mappings), model)

\* _apply_model_mapping, lines 485-513: the model the body names afterwards
\* and, if a rule of source_type config rewrote it, the channel (the rule's
\* source) that _get_current_active_config returned.
RECURSIVE apply_model_mapping(_, _, _)
apply_model_mapping(mappings, model, current_config) ==
  IF mappings = << >> THEN [model |-> model, consulted |-> None]
  ELSE LET source == strip(Head(mappings).source)
           target == strip(Head(mappings).target)
           source_type == strip(Head(mappings).source_type)
       IN IF source = "" \/ target = ""
          THEN apply_model_mapping(Tail(mappings), model, current_config)
          ELSE IF source_type = "config" /\ current_config = source
          THEN [model |-> target, consulted |-> source]
          ELSE IF source_type = "model" /\ model = source
          THEN [model |-> target, consulted |-> None]
          ELSE apply_model_mapping(Tail(mappings), model, current_config)

\* ------------------------------------------------------------------ dicts
EmptyDict == [x \in {} |-> 0]
DictGet(d, k, default) == IF k \in DOMAIN d THEN d[k] ELSE default
DictPut(d, k, v) == [x \in DOMAIN d \cup {k} |-> IF x = k THEN v ELSE d[x]]
DictDrop(d, ks) == [x \in DOMAIN d \ ks |-> d[x]]

\* --------------------------------------------------------------- headers
\* A dict of headers is a function from the names it holds to their values.
\* str.lower() on the header names of the model.
lower(k) ==
  CASE k = "Authorization" -> "authorization"
    [] k = "X-Api-Key" -> "x-api-key"
    [] k = "Cookie" -> "cookie"
    [] k = "Connection" -> "connection"
    [] k = "Transfer-Encoding" -> "transfer-encoding"
    [] OTHER -> k

\* {k: v for k, v in d.items() if k.lower() not in excluded}
DictWithout(d, excluded) ==
  [k \in {x \in DOMAIN d : lower(x) \notin excluded} |-> d[k]]

\* config_data.get(key) is truthy: the key is there with a non-empty value
Truthy(v) == v # NoVal /\ v # ""

\* build_target_param passing the client's own credentials on when the
\* channel has none of that kind.
target_headers_client_kept(request_headers, netloc, config_data) ==
  LET kept == DictWithout(request_headers, {"host", "content-length"})
      hosted == DictPut(kept, "host", netloc)
      alive == IF "connection" \in DOMAIN hosted THEN hosted
               ELSE DictPut(hosted, "connection", "keep-alive")
      keyed == IF Truthy(config_data.api_key)
               THEN DictPut(alive, "x-api-key", config_data.api_key)
               ELSE alive
  IN IF Truthy(config_data.auth_token)
     THEN DictPut(keyed, "authorization", "Bearer " \o config_data.auth_token)
     ELSE keyed

\* build_target_param, lines 663-671: the headers of the upstream request
target_headers(request_headers, netloc, config_data) ==
  LET excluded_headers == {"x-api-key", "authorization", "host", "content-length"}
      kept == DictWithout(request_headers, excluded_headers)
      hosted == DictPut(kept, "host", netloc)
      alive == IF "connection" \in DOMAIN hosted THEN hosted
               ELSE DictPut(hosted, "connection", "keep-alive")
      keyed == IF Truthy(config_data.api_key)
               THEN DictPut(alive, "x-api-key", config_data.api_key)
               ELSE alive
  IN IF Truthy(config_data.auth_token)
     THEN DictPut(keyed, "authorization", "Bearer " \o config_data.auth_token)
     ELSE keyed

\* RealTimeRequestHub._sanitize_headers hiding the names it knows in lower
\* case only.
hidden_marker == "[hidden]"
sanitize_headers_exact_case(headers) ==
  [k \in DOMAIN headers |->
     IF k \notin {"authorization", "x-api-key", "cookie"} THEN headers[k]
     ELSE hidden_marker]

\* RealTimeRequestHub._sanitize_headers, lines 244-257 (hidden_marker stands
\* for the marker text of line 252).
sanitize_headers(headers) ==
  LET sensitive_headers == {"authorization", "x-api-key", "cookie"}
  IN [k \in DOMAIN headers |->
        IF lower(k) \notin sensitive_headers THEN headers[k]
        ELSE hidden_marker]

\* proxy(), lines 762-775: the headers of the response to the client, with
\* excluded_response_headers as line 763 sets it: empty.
response_headers_of(upstream_headers) ==
  LET excluded_response_headers == {}
  IN DictWithout(upstream_headers, excluded_response_headers)

\* ------------------------------------------------------------ request filter
\* Bodies, sources and targets are byte strings, here sequences of letters.
\* data[i:] starts with source
StartsWith(data, source) ==
  Len(source) <= Len(data) /\ SubSeq(data, 1, Len(source)) = source

\* A replacement that stops after the first occurrence.
RECURSIVE replace_first(_, _, _)
replace_first(data, source, target) ==
  IF data = << >> \/ source = << >> THEN data
  ELSE IF StartsWith(data, source)
  THEN target \o SubSeq(data, Len(source) + 1, Len(data))
  ELSE << Head(data) >> \o replace_first(Tail(data), source, target)

\* bytes.replace(source, target), and regex.sub(target, data) for a source
\* without regex syntax and a target without backslash: the occurrences of
\* source, found from the left and not overlapping, become target; an empty
\* source matches before every byte and at the end.
RECURSIVE replace(_, _, _)
replace(data, source, target) ==
  IF source = << >>
  THEN IF data = << >> THEN target
       ELSE target \o << Head(data) >> \o replace(Tail(data), source, target)
  ELSE IF data = << >> THEN data
  ELSE IF StartsWith(data, source)
  THEN target \o replace(SubSeq(data, Len(source) + 1, Len(data)), source, target)
  ELSE << Head(data) >> \o replace(Tail(data), source, target)

\* CachedRequestFilter.apply_filters, lines 125-147: one rule applied
apply_rule(rule, filtered_data) ==
  CASE rule.op = "replace" -> replace(filtered_data, rule.source, rule.target)
    [] rule.op = "remove" -> replace(filtered_data, rule.source, << >>)
    [] OTHER -> filtered_data

\* CachedRequestFilter.apply_filters, lines 107-149
RECURSIVE apply_filters(_, _)
apply_filters(rules, data) ==
  IF rules = << >> \/ data = << >> THEN data
  ELSE apply_filters(Tail(rules), apply_rule(Head(rules), data))

\* ------------------------------------------------------------- LB selection
InList(x, s) == \E i \in 1..Len(s) : s[i] = x
\* list.remove: the first occurrence only
ListRemove(s, x) ==
  LET i == CHOOSE j \in 1..Len(s) : s[j] = x /\ \A k \in 1..(j - 1) : s[k] # x
  IN SubSeq(s, 1, i - 1) \o SubSeq(s, i + 1, Len(s))

\* item[1].get('weight', 0) or 0
ConfigWeight(entry) == IF "weight" \in DOMAIN entry THEN entry.weight ELSE 0

\* key=lambda item: (-float(weight), item[0])
SortsBefore(x, y) ==
  \/ ConfigWeight(x) > ConfigWeight(y)
  \/ ConfigWeight(x) = ConfigWeight(y) /\ NameOrd(x.name) < NameOrd(y.name)

RECURSIVE SortInsert(_, _)
SortInsert(e, s) ==
  IF s = << >> THEN << e >>
  ELSE IF SortsBefore(e, Head(s)) THEN << e >> \o s
  ELSE << Head(s) >> \o SortInsert(e, Tail(s))

RECURSIVE sorted_configs(_)
sorted_configs(configs) ==
  IF configs = << >> THEN << >>
  ELSE SortInsert(Head(configs), sorted_configs(Tail(configs)))

RECURSIVE first_eligible(_, _)
first_eligible(sorted, section) ==
  IF sorted = << >> THEN None
  ELSE IF DictGet(section.currentFailures, Head(sorted).name, 0)
            >= section.failureThreshold
       THEN first_eligible(Tail(sorted), section)
  ELSE IF InList(Head(sorted).name, section.excludedConfigs)
       THEN first_eligible(Tail(sorted), section)
  ELSE Head(sorted).name

\* BaseProxyService._select_weighted_config; active_config is the value a
\* read of config_manager.active_config gives when the loop finds nothing.
select_weighted_config(configs, section, active_config) ==
  IF configs = << >> THEN None
  ELSE LET sorted == sorted_configs(configs)
           found == first_eligible(sorted, section)
       IN IF found # None THEN found
          ELSE IF active_config \in ConfigNames(configs) THEN active_config
          ELSE sorted[1].name

\* BaseProxyService._select_config_by_loadbalance
select_config_by_loadbalance(configs, lb, active_config) ==
  IF lb.mode = "weight-based"
     /\ select_weighted_config(configs, lb, active_config) # None
  THEN select_weighted_config(configs, lb, active_config)
  ELSE active_config

\* Whether the selection reads config_manager.active_config.
SelectionReadsActive(configs, lb) ==
  ~(lb.mode = "weight-based" /\ configs # << >>
    /\ first_eligible(sorted_configs(configs), lb) # None)

\* ------------------------------------------------------------ LB bookkeeping
IsSuccess(status_code) == 200 <= status_code /\ status_code < 300

\* BaseProxyService._record_lb_result on the in-memory LB config (already
\* made current); the result is the in-memory config after the call.
record_lb_result(lb, config_name, status_code) ==
  IF config_name = None THEN lb
  ELSE IF lb.mode # "weight-based" THEN lb
  ELSE LET threshold == lb.failureThreshold
           failures == lb.currentFailures
           excluded == lb.excludedConfigs
       IN IF IsSuccess(status_code)
          THEN [lb EXCEPT
                 !.currentFailures =
                    IF DictGet(failures, config_name, 0) # 0
                    THEN DictPut(failures, config_name, 0) ELSE failures,
                 !.excludedConfigs =
                    IF InList(config_name, excluded)
                    THEN ListRemove(excluded, config_name) ELSE excluded]
          ELSE LET new_count == DictGet(failures, config_name, 0) + 1
               IN [lb EXCEPT
                    !.currentFailures = DictPut(failures, config_name, new_count),
                    !.excludedConfigs =
                       IF new_count >= threshold /\ ~InList(config_name, excluded)
                       THEN Append(excluded, config_name) ELSE excluded]

\* _default_lb_config, one service section
default_lb_config(mode) ==
  [mode |-> mode, failureThreshold |-> DefaultThreshold,
   currentFailures |-> EmptyDict, excludedConfigs |-> << >>]

\* ---------------------------------------------------------------- live hub
\* RealTimeRequestHub.request_started: the record is stored as PENDING.
hub_request_started(active, request_id, channel) ==
  DictPut(active, request_id,
          [status |-> "PENDING", status_code |-> 0, channel |-> channel,
           cleanup |-> FALSE])

\* RealTimeRequestHub.request_streaming
hub_request_streaming(active, request_id) ==
  IF request_id \in DOMAIN active
  THEN [active EXCEPT ![request_id].status = "STREAMING"]
  ELSE active

\* RealTimeRequestHub.request_completed: the terminal status and the
\* delayed cleanup task it creates.
hub_request_completed(active, request_id, status_code, success) ==
  IF request_id \in DOMAIN active
  THEN [active EXCEPT ![request_id].status =
                         IF success THEN "COMPLETED" ELSE "FAILED",
                      ![request_id].status_code = status_code,
                      ![request_id].cleanup = TRUE]
  ELSE active

\* The event request_completed hands to broadcast_event.
completed_event(active, request_id, status_code, success) ==
  IF request_id \in DOMAIN active
  THEN << [type |-> IF success THEN "completed" ELSE "failed",
           request_id |-> request_id,
           status |-> IF success THEN "COMPLETED" ELSE "FAILED",
           status_code |-> status_code] >>
  ELSE << >>

\* RealTimeRequestHub._cleanup_old_requests, lines 229-233: sorted(items,
\* key=start_time, reverse=True). The sort is stable and a dict keeps its
\* items in the order they were inserted (this order of equal keys survives
\* the dict(sorted_requests[...]) of earlier calls), so records of equal
\* start_time stand in the order the requests started.
RECURSIVE sorted_requests(_, _)
sorted_requests(active, ids) ==
  IF ids = {} THEN << >>
  ELSE LET first == CHOOSE x \in ids : \A y \in ids :
                      \/ active[x].start_time > active[y].start_time
                      \/ active[x].start_time = active[y].start_time /\ x <= y
       IN << first >> \o sorted_requests(active, ids \ {first})

\* RealTimeRequestHub._cleanup_old_requests: beyond max_requests records, the
\* first max_requests of the sorted items are kept.
cleanup_old_requests(active, max_requests) ==
  IF Cardinality(DOMAIN active) > max_requests
  THEN LET sorted == sorted_requests(active, DOMAIN active)
           kept == {sorted[i] : i \in 1..max_requests}
       IN [request_id \in kept |-> active[request_id]]
  ELSE active

\* RealTimeRequestHub.request_started, lines 124-138, of a hub constructed
\* with max_requests: the record is stored with the wall clock's reading as
\* its start_time, then _cleanup_old_requests runs.
request_started(active, request_id, channel, start_time, max_requests) ==
  cleanup_old_requests(
    DictPut(active, request_id,
            [status |-> "PENDING", status_code |-> 0, channel |-> channel,
             cleanup |-> FALSE, start_time |-> start_time]),
    max_requests)

\* -------------------------------------------------------------------- usage
\* A value a usage payload holds under a metric key: absent or null, a JSON
\* integer, a JSON number with a fraction (in tenths), or text that is no
\* number. One metric key is modelled; the six keys are treated alike.
RawNone == [t |-> "none", v |-> 0]
RawInt(n) == [t |-> "int", v |-> n]
RawFloat(tenths) == [t |-> "float", v |-> tenths]
RawText == [t |-> "text", v |-> 0]

\* usage_parser._to_int: int() of a float truncates towards zero.
to_int(value) ==
  CASE value.t = "none" -> 0
    [] value.t = "int" -> value.v
    [] value.t = "float" -> IF value.v >= 0 THEN value.v \div 10
                            ELSE -((-value.v) \div 10)
    [] OTHER -> 0

\* usage_parser.normalize_usage: the metric of a raw usage payload.
normalize_usage(raw_usage) == to_int(raw_usage)

\* usage_parser.extract_usage_from_response: the bodies of the streaming
\* model are no JSON and carry no usage payload.
extract_usage_from_response(response_bytes) == normalize_usage(RawNone)

\* entry.get('channel') or 'unknown'
ChannelOf(entry) == IF entry.channel = None THEN "unknown" ELSE entry.channel

\* usage_parser.merge_usage_metrics on one channel bucket of a map
merge_usage_metrics(buckets, channel, metric) ==
  DictPut(buckets, channel, DictGet(buckets, channel, 0) + metric)

\* ui_server.aggregate_usage_from_logs, and the same loop at the head of
\* BaseProxyService._save_discarded_logs_usage: channel -> summed metric.
RECURSIVE aggregate_usage_from_logs(_)
aggregate_usage_from_logs(logs) ==
  IF logs = << >> THEN EmptyDict
  ELSE LET entry == logs[Len(logs)]
       IN merge_usage_metrics(
            aggregate_usage_from_logs(SubSeq(logs, 1, Len(logs) - 1)),
            ChannelOf(entry), entry.usage)

\* ui_server.merge_history_usage, and the merge loop of
\* _save_discarded_logs_usage.
merge_history_usage(base, addition) ==
  [ch \in DOMAIN base \cup DOMAIN addition |->
     DictGet(base, ch, 0) + DictGet(addition, ch, 0)]

\* BaseProxyService._save_discarded_logs_usage: the history file afterwards.
save_discarded_logs_usage(history_usage, discarded_logs) ==
  IF discarded_logs = << >> THEN history_usage
  ELSE merge_history_usage(history_usage, aggregate_usage_from_logs(discarded_logs))

\* -------------------------------------------------------------- traffic log
\* _maintain_log_limit, lines 325-330: existing_logs[:-max_logs] of the log
\* with the new entry appended.
discarded_logs(existing_logs, new_log_entry, limit) ==
  LET logs == Append(existing_logs, new_log_entry)
  IN IF Len(logs) > limit THEN SubSeq(logs, 1, Len(logs) - limit) ELSE << >>

\* The cap kept from the wrong end: the log keeps its oldest entries.
maintain_log_limit_oldest(existing_logs, new_log_entry, limit) ==
  LET logs == Append(existing_logs, new_log_entry)
  IN IF Len(logs) > limit THEN SubSeq(logs, 1, limit) ELSE logs

\* BaseProxyService._maintain_log_limit: append, keep the last max_logs
\* (the logLimit of system.json).
maintain_log_limit(existing_logs, new_log_entry, limit) ==
  LET logs == Append(existing_logs, new_log_entry)
  IN IF Len(logs) > limit
     THEN SubSeq(logs, Len(logs) - limit + 1, Len(logs))
     ELSE logs

\* ui_server.trim_logs_to_limit: logs[-limit:]
trim_logs_to_limit(logs, limit) ==
  IF Len(logs) <= limit THEN logs
  ELSE SubSeq(logs, Len(logs) - limit + 1, Len(logs))

\* ------------------------------------------------------------ hub subscribers
Subscribers == {"s1"}

\* RealTimeRequestHub._send_snapshot: one message per record held, in the
\* order of the dict (the order the requests started in).
RECURSIVE send_snapshot(_, _)
send_snapshot(active, ids) ==
  IF ids = {} THEN << >>
  ELSE LET request_id == CHOOSE x \in ids : \A y \in ids : x <= y
       IN << [type |-> "snapshot", request_id |-> request_id,
              status |-> active[request_id].status,
              status_code |-> active[request_id].status_code] >>
          \o send_snapshot(active, ids \ {request_id})

\* RealTimeRequestHub.broadcast_event: what each socket has been sent after
\* the events are broadcast to the connections.
broadcast_event(conns, sent, events) ==
  [s \in DOMAIN sent |-> IF s \in conns THEN sent[s] \o events ELSE sent[s]]

\* -------------------------------------------------------------------- state
VARIABLES
  catalogFile,     \* ~/.clp/<service>.json: the channels, in file order
  cmCache,         \* CachedConfigManager: _configs_cache, _active_config_cache,
                   \* and whether _file_mtime is the file's mtime
  lbFile,          \* lb_config.json: mode and this service's section
  lbMem,           \* the proxy's self.lb_config
  lbFresh,         \* self.lb_config_signature is the file's signature
  pc,              \* where the request handler stands
  req,             \* the locals of proxy() and of its iterator
  upstream,        \* what the upstream saw and produced for this request
  client,          \* what the client received for this request
  activeRequests,  \* RealTimeRequestHub.active_requests
  hubEvents,       \* events handed to broadcast_event for this request
  trafficLog,      \* proxy_requests.jsonl
  history,         \* history_usage.json: this service's channel -> metric
  logLimit,        \* system.json: logLimit
  connections,     \* RealTimeRequestHub.connections
  received,        \* what each subscriber's socket was sent, in order
  record,          \* one hub record as response_chunk calls fill it
  lbCalls,         \* _record_lb_result calls made for this request
  nreq,            \* requests received so far
  nops,            \* requests the operator made of the UI server so far
  catalogShape,    \* what the bytes of the catalog file parse to
  routing_config,  \* the proxy's self.routing_config
  writers,         \* the _write_log threads running _maintain_log_limit
  call,            \* a function applied on its own: arguments and result
  sending,         \* the broadcast_event call the request handler is in
  lbWorkers,       \* the threads running _record_lb_result
  siblingLb,       \* the other service: its section of lb_config.json in the
                   \* file and in self.lb_config, and its log entries so far,
  clearing         \* the UI server's clear_logs call: its position and the
                   \* entries its load_logs returned

vars == << catalogFile, cmCache, lbFile, lbMem, lbFresh, pc, req, upstream,
           client, activeRequests, hubEvents, trafficLog, history, logLimit,
           connections, received, record, lbCalls, nreq, nops,
           catalogShape, routing_config, writers, call, sending, lbWorkers,
           siblingLb, clearing >>

catalogVars == << catalogFile, cmCache >>
lbVars == << lbFile, lbMem, lbFresh >>
taskVars == << sending, lbWorkers, siblingLb, clearing >>
extVars == << catalogShape, routing_config, writers, call, taskVars >>
subVars == << connections, received, record, extVars >>
hubVars == << activeRequests, hubEvents, subVars >>
logVars == << trafficLog, history, logLimit >>

ReqInit ==
  [id |-> 0, configs |-> << >>, fileSeen |-> << >>, lbSeen |-> default_lb_config("active-first"),
   name |-> None, fallback_name |-> None, base_url |-> None, mapped_for |-> None,
   status_code |-> 0, lb_result_recorded |-> FALSE,
   collected |-> << >>, total_response_bytes |-> 0,
   response_truncated |-> FALSE, first_chunk |-> TRUE, chunk |-> << >>,
   outcome |-> "none", lbAtArrival |-> default_lb_config("active-first"),
   shapeSeen |-> "catalog", body_model |-> NoVal, target_model |-> NoVal,
   config_override |-> None]

UpstreamInit ==
  [count |-> 0, target |-> None, status |-> 0, produced |-> << >>,
   nchunks |-> 0, closed |-> FALSE, body_model |-> NoVal]

ClientInit == [status |-> 0, body |-> "none", bytes |-> << >>, connected |-> TRUE]

\* _load_routing_config, lines 376-386: the routing config when the router
\* file is missing (this service's configMappings; the model-mapping mode is
\* not modelled).
default_routing_config == [mode |-> "default", configMappings |-> << >>]

\* The threads that log_request starts with asyncio.to_thread(_write_log),
\* in this proxy or in the proxy of the other service process writing the
\* same file; each holds the locals of its _maintain_log_limit call.
Writers == {"w1", "w2"}
WritersInit ==
  [w \in Writers |-> [pc |-> "idle", request_id |-> 0, channel |-> "none",
                      max_logs |-> 0, existing_logs |-> << >>]]

\* No function has been applied on its own.
NoCall == [fn |-> "none"]

\* The request handler is in no broadcast_event call.
NoBroadcast == [state |-> "none"]

\* No clear_logs call is under way.
ClearingInit == [pc |-> "idle", logs |-> << >>]

\* The threads that proxy() starts with asyncio.to_thread(_record_lb_result)
\* (lines 759, 848, 894); each holds the locals of its call. section is the
\* dict the thread's service_section, failures and excluded refer to once
\* self.lb_config has been rebound to a newly loaded dict.
Workers == {"t1", "t2"}
LbWorkersInit ==
  [t \in Workers |-> [pc |-> "idle", config_name |-> None, threshold |-> 0,
                      new_count |-> 0, changed |-> FALSE, detached |-> FALSE,
                        section |-> None]]

\* The other service (the sibling proxy runs in a process of its own):
\* nothing recorded, nothing logged.
service_name == "claude"
sibling_name == "codex"
SiblingInit ==
  [file |-> default_lb_config("active-first"),
   mem |-> default_lb_config("active-first"), nlogs |-> 0]

\* The state after construction, with the sockets that may subscribe.
InitWith(sockets) ==
  /\ cmCache = [configs |-> << >>, active |-> None, fresh |-> FALSE]
  /\ lbMem = lbFile
  /\ lbFresh = TRUE
  /\ pc = "idle"
  /\ req = ReqInit
  /\ upstream = UpstreamInit
  /\ client = ClientInit
  /\ activeRequests = EmptyDict
  /\ hubEvents = << >>
  /\ trafficLog = << >>
  /\ history = EmptyDict
  /\ logLimit = max_logs
  /\ connections = {}
  /\ received = [s \in sockets |-> << >>]
  /\ record = [response_chunks |-> << >>, response_truncated |-> FALSE,
               duration_ms |-> 0]
  /\ lbCalls = << >>
  /\ nreq = 0
  /\ nops = 0
  /\ writers = WritersInit
  /\ sending = NoBroadcast
  /\ lbWorkers = LbWorkersInit
  /\ siblingLb = SiblingInit
  /\ clearing = ClearingInit

InitBase == InitWith(Subscribers)

\* The catalog file holds a catalog, the router file is missing.
InitCommon ==
  /\ InitBase
  /\ catalogShape = "catalog"
  /\ routing_config = default_routing_config
  /\ call = NoCall

\* ------------------------------------------------- catalog reads (the cache)
\* CachedConfigManager._should_reload: the file's mtime differs from the one
\* cached (a reload after the TTL alone reads the same content again).
should_reload == ~cmCache.fresh

\* CachedConfigManager._get_cached_data: what a read of .configs or of
\* .active_config sees.
get_cached_data ==
  IF should_reload THEN load_configs_from_file(catalogFile)
  ELSE [configs |-> cmCache.configs, active |-> cmCache.active]

\* The cache after such a read (_refresh_cache).
CacheAfterRead ==
  cmCache' = [configs |-> get_cached_data.configs,
              active |-> get_cached_data.active, fresh |-> TRUE]

\* ------------------------------------------------------- LB state of the proxy
\* BaseProxyService._ensure_lb_config_current
ensure_lb_config_current == IF lbFresh THEN lbMem ELSE lbFile

\* _record_lb_result as the proxy runs it: make the config current, update it
\* in memory, persist it when it changed.
RecordLb(config_name, status_code) ==
  LET current == ensure_lb_config_current
      after == record_lb_result(current, config_name, status_code)
  IN /\ lbMem' = (IF config_name = None THEN lbMem ELSE after)
     /\ lbFile' = (IF config_name # None /\ after # current THEN after ELSE lbFile)
     /\ lbFresh' = (IF config_name = None THEN lbFresh ELSE TRUE)
     /\ lbCalls' = Append(lbCalls, [name |-> config_name, status_code |-> status_code])

\* ------------------------------------------------------ the request handler
\* log_request, line 222: _maintain_log_limit writes the entry; the entries
\* it discards go to the history file first.
WriteLog(new_log_entry) ==
  /\ history' = save_discarded_logs_usage(history,
                   discarded_logs(trafficLog, new_log_entry, logLimit))
  /\ trafficLog' = maintain_log_limit(trafficLog, new_log_entry, logLimit)
  /\ UNCHANGED logLimit

\* The hub hands events to broadcast_event.
Broadcast(events) ==
  /\ hubEvents' = hubEvents \o events
  /\ received' = broadcast_event(connections, received, events)
  /\ UNCHANGED << connections, record, extVars >>

\* proxy(): a request arrives; its locals are fresh.
Arrive(limit) ==
  /\ pc \in {"idle", "done"}
  /\ nreq < limit
  /\ nreq' = nreq + 1
  /\ req' = [ReqInit EXCEPT !.id = nreq + 1, !.lbAtArrival = lbFile]
  /\ upstream' = UpstreamInit
  /\ client' = ClientInit
  /\ hubEvents' = << >>
  /\ lbCalls' = << >>
  /\ pc' = "build_configs"
  /\ UNCHANGED << catalogVars, lbVars, activeRequests, subVars, logVars, nops >>

\* proxy(): a request arrives whose JSON body names a model (NoVal: it names
\* none).
ArriveBody(limit, model) ==
  /\ pc \in {"idle", "done"}
  /\ nreq < limit
  /\ nreq' = nreq + 1
  /\ req' = [ReqInit EXCEPT !.id = nreq + 1, !.lbAtArrival = lbFile,
                            !.body_model = model, !.target_model = model]
  /\ upstream' = UpstreamInit
  /\ client' = ClientInit
  /\ hubEvents' = << >>
  /\ lbCalls' = << >>
  /\ pc' = "build_routing"
  /\ UNCHANGED << catalogVars, lbVars, activeRequests, subVars, logVars, nops >>

\* build_target_param, line 628: _apply_model_routing(body), the catalog
\* file holding a catalog; in the mode config-mapping it reads
\* config_manager.configs (line 521) for a mapping of the body's model.
BuildRouting ==
  /\ pc = "build_routing"
  /\ catalogShape = "catalog"
  /\ IF routing_config.mode = "config-mapping" /\ req.body_model \notin {NoVal, ""}
        /\ mapping_matches(routing_config.configMappings, req.body_model)
     THEN CacheAfterRead
     ELSE UNCHANGED cmCache
  /\ req' = [req EXCEPT
               !.config_override =
                  apply_model_routing(routing_config, req.body_model,
                                      get_cached_data.configs),
               !.target_model = req.body_model]
  /\ pc' = "build_configs"
  /\ UNCHANGED << catalogFile, lbVars, upstream, client, hubVars, logVars,
                  lbCalls, nreq, nops >>

\* build_target_param, line 628, in the mode model-mapping:
\* _apply_model_routing(body) gives _apply_model_mapping the body's model; a
\* rule of source_type config makes it select a channel of its own
\* (_get_current_active_config, lines 533-536: config_manager.configs and
\* _select_config_by_loadbalance), before the selection of line 637.
BuildModelMapping ==
  /\ pc = "build_routing"
  /\ routing_config.mode = "model-mapping"
  /\ catalogShape = "catalog"
  /\ LET routed == req.body_model \notin {NoVal, ""}
         selects == routed /\ consults_config(routing_config.modelMappings,
                                              req.body_model)
         lb == ensure_lb_config_current
         current_config ==
           select_config_by_loadbalance(get_cached_data.configs, lb,
                                        get_cached_data.active)
         result == IF routed
                   THEN apply_model_mapping(routing_config.modelMappings,
                                            req.body_model, current_config)
                   ELSE [model |-> req.body_model, consulted |-> None]
     IN /\ IF selects
           THEN /\ CacheAfterRead
                /\ lbMem' = lb
                /\ lbFresh' = TRUE
           ELSE UNCHANGED << cmCache, lbMem, lbFresh >>
        /\ req' = [req EXCEPT !.config_override = None,
                              !.target_model = result.model,
                              !.mapped_for = result.consulted]
  /\ pc' = "build_configs"
  /\ UNCHANGED << catalogFile, lbFile, upstream, client, hubVars, logVars,
                  lbCalls, nreq, nops >>

\* build_target_param, line 631: configs = self.config_manager.configs,
\* from the cache or from a file that holds a catalog.
BuildReadConfigs ==
  /\ pc = "build_configs"
  /\ ~should_reload \/ catalogShape = "catalog"
  /\ CacheAfterRead
  /\ req' = [req EXCEPT !.configs = get_cached_data.configs,
                        !.fileSeen = catalogFile]
  /\ pc' = "build_select"
  /\ UNCHANGED << catalogFile, lbVars, upstream, client, hubVars, logVars,
                  lbCalls, nreq, nops >>

\* build_target_param, line 631, reading a file that holds no catalog:
\* bytes that are no JSON are replaced by {} and the catalog read is empty;
\* JSON of another shape raises AttributeError or TypeError, which proxy()
\* (lines 714-728, except ValueError) does not catch: the framework answers
\* 500 Internal Server Error.
BuildReadUnloadable ==
  /\ pc = "build_configs"
  /\ should_reload
  /\ catalogShape # "catalog"
  /\ LET loaded == try_load_configs(catalogShape, catalogFile)
     IN /\ catalogFile' = loaded.file
        /\ catalogShape' = loaded.shape
        /\ IF loaded.raised
           THEN /\ req' = [req EXCEPT !.shapeSeen = catalogShape,
                                      !.outcome = "unhandled_error"]
                /\ client' = [client EXCEPT !.status = 500,
                                            !.body = "internal_server_error"]
                /\ pc' = "done"
                /\ UNCHANGED cmCache
           ELSE /\ cmCache' = [configs |-> loaded.configs,
                               active |-> loaded.active, fresh |-> TRUE]
                /\ req' = [req EXCEPT !.shapeSeen = catalogShape,
                                      !.configs = loaded.configs,
                                      !.fileSeen = loaded.file]
                /\ pc' = "build_select"
                /\ UNCHANGED client
  /\ UNCHANGED << lbVars, upstream, activeRequests, hubEvents, connections,
                  received, record, routing_config, writers, call, taskVars,
                  logVars, lbCalls, nreq, nops >>

\* build_target_param, lines 634-637: the config_override of the routing,
\* else _select_config_by_loadbalance(configs)
BuildSelect ==
  /\ pc = "build_select"
  /\ LET lb == ensure_lb_config_current
         reads == SelectionReadsActive(req.configs, lb)
         active_config == IF reads THEN get_cached_data.active ELSE None
     IN IF req.config_override # None
        THEN /\ req' = [req EXCEPT !.name = req.config_override]
             /\ UNCHANGED << lbMem, lbFresh, cmCache >>
        ELSE /\ lbMem' = lb
             /\ lbFresh' = TRUE
             /\ IF reads THEN CacheAfterRead ELSE UNCHANGED cmCache
             /\ req' = [req EXCEPT
                          !.name = select_config_by_loadbalance(req.configs, lb, active_config),
                          !.lbSeen = lb]
  /\ pc' = "build_lookup"
  /\ UNCHANGED << catalogFile, lbFile, upstream, client, hubVars, logVars,
                  lbCalls, nreq, nops >>

\* build_target_param, lines 639-643: configs.get(name), read again on a miss
BuildLookup ==
  /\ pc = "build_lookup"
  /\ IF req.name \in ConfigNames(req.configs)
     THEN /\ req' = [req EXCEPT !.base_url = ConfigGet(req.configs, req.name).base_url]
          /\ pc' = "hub_start"
          /\ UNCHANGED cmCache
     ELSE IF req.name # None
     THEN LET configs == get_cached_data.configs
          IN /\ CacheAfterRead
             /\ IF req.name \in ConfigNames(configs)
                THEN /\ req' = [req EXCEPT !.configs = configs,
                                  !.base_url = ConfigGet(configs, req.name).base_url]
                     /\ pc' = "hub_start"
                ELSE /\ req' = [req EXCEPT !.configs = configs]
                     /\ pc' = "build_fallback"
     ELSE /\ pc' = "build_fallback"
          /\ UNCHANGED << req, cmCache >>
  /\ UNCHANGED << catalogFile, lbVars, upstream, client, hubVars, logVars,
                  lbCalls, nreq, nops >>

\* build_target_param, line 646: fallback_name = config_manager.active_config
BuildFallbackActive ==
  /\ pc = "build_fallback"
  /\ CacheAfterRead
  /\ req' = [req EXCEPT !.fallback_name = get_cached_data.active]
  /\ pc' = "build_fallback_lookup"
  /\ UNCHANGED << catalogFile, lbVars, upstream, client, hubVars, logVars,
                  lbCalls, nreq, nops >>

\* The routing error written to the traffic log like an upstream error.
BuildFallbackLookup_logged ==
  /\ pc = "build_fallback_lookup"
  /\ CacheAfterRead
  /\ LET configs == get_cached_data.configs
     IN IF req.fallback_name \in ConfigNames(configs)
        THEN /\ req' = [req EXCEPT !.configs = configs,
                          !.name = req.fallback_name,
                          !.base_url = ConfigGet(configs, req.fallback_name).base_url]
             /\ pc' = "hub_start"
             /\ UNCHANGED << client, logVars >>
        ELSE /\ req' = [req EXCEPT !.configs = configs,
                          !.name = req.fallback_name,
                          !.outcome = "no_active_config"]
             /\ client' = [client EXCEPT !.status = 500, !.body = "error"]
             /\ WriteLog([request_id |-> req.id, status_code |-> 500,
                   channel |-> req.fallback_name, response_content |-> << >>,
                   response_truncated |-> FALSE, response_bytes |-> -1,
                   usage |-> extract_usage_from_response(<< >>)])
             /\ pc' = "done"
  /\ UNCHANGED << catalogFile, lbVars, upstream, hubVars, lbCalls, nreq, nops >>

\* build_target_param, lines 647-652, and proxy(), lines 727-728: the lookup
\* of the fallback name; a miss raises ValueError, answered with HTTP 500.
BuildFallbackLookup ==
  /\ pc = "build_fallback_lookup"
  /\ CacheAfterRead
  /\ LET configs == get_cached_data.configs
     IN IF req.fallback_name \in ConfigNames(configs)
        THEN /\ req' = [req EXCEPT !.configs = configs,
                          !.name = req.fallback_name,
                          !.base_url = ConfigGet(configs, req.fallback_name).base_url]
             /\ pc' = "hub_start"
             /\ UNCHANGED client
        ELSE /\ req' = [req EXCEPT !.configs = configs,
                          !.name = req.fallback_name,
                          !.outcome = "no_active_config"]
             /\ client' = [client EXCEPT !.status = 500, !.body = "error"]
             /\ pc' = "done"
  /\ UNCHANGED << catalogFile, lbVars, upstream, hubVars, logVars,
                  lbCalls, nreq, nops >>

\* proxy(), lines 718-725: realtime_hub.request_started
HubStart ==
  /\ pc = "hub_start"
  /\ activeRequests' = hub_request_started(activeRequests, req.id, req.name)
  /\ Broadcast(<< [type |-> "started", request_id |-> req.id,
                   status |-> "PENDING", status_code |-> 0] >>)
  /\ pc' = "send"
  /\ UNCHANGED << catalogVars, lbVars, req, upstream, client, logVars,
                  lbCalls, nreq, nops >>

\* proxy(), lines 747-753: the request goes out to the channel's base_url
SendRequest ==
  /\ pc = "send"
  /\ upstream' = [upstream EXCEPT !.count = @ + 1, !.target = req.base_url,
                                  !.body_model = req.target_model]
  /\ pc' = "await_response"
  /\ UNCHANGED << catalogVars, lbVars, req, client, hubVars, logVars,
                  lbCalls, nreq, nops >>

\* proxy(), lines 755-855: the upstream answers with a status; a non-2xx
\* status is recorded at once; the StreamingResponse carries the status.
UpstreamResponds(status_code) ==
  /\ pc = "await_response"
  /\ IF ~IsSuccess(status_code)
     THEN RecordLb(req.name, status_code)
     ELSE UNCHANGED << lbVars, lbCalls >>
  /\ req' = [req EXCEPT !.status_code = status_code,
                        !.lb_result_recorded = ~IsSuccess(status_code)]
  /\ upstream' = [upstream EXCEPT !.status = status_code]
  /\ client' = [client EXCEPT !.status = status_code, !.body = "stream"]
  /\ pc' = "respond"
  /\ UNCHANGED << catalogVars, hubVars, logVars, nreq, nops >>

LogEntry(status_code, response_content, response_truncated, response_bytes) ==
  [request_id |-> req.id, status_code |-> status_code, channel |-> req.name,
   response_content |-> response_content,
   response_truncated |-> response_truncated,
   response_bytes |-> response_bytes,
   usage |-> extract_usage_from_response(response_content)]

\* The error branch trying the request again.
UpstreamRequestError_retry ==
  /\ pc = "await_response"
  /\ pc' = "send"
  /\ UNCHANGED << catalogVars, lbVars, req, upstream, client, hubVars,
                  logVars, lbCalls, nreq, nops >>

\* The error branch leaving the load balancer out.
UpstreamRequestError_unrecorded ==
  /\ pc = "await_response"
  /\ activeRequests' = hub_request_completed(activeRequests, req.id, 500, FALSE)
  /\ Broadcast(completed_event(activeRequests, req.id, 500, FALSE))
  /\ WriteLog(LogEntry(500, << >>, FALSE, -1))
  /\ req' = [req EXCEPT !.status_code = 500, !.outcome = "request_error"]
  /\ client' = [client EXCEPT !.status = 500, !.body = "error_detail"]
  /\ pc' = "done"
  /\ UNCHANGED << catalogVars, lbVars, lbCalls, upstream, nreq, nops >>

\* proxy(), lines 856-896: httpx.RequestError from send
UpstreamRequestError ==
  /\ pc = "await_response"
  /\ activeRequests' = hub_request_completed(activeRequests, req.id, 500, FALSE)
  /\ Broadcast(completed_event(activeRequests, req.id, 500, FALSE))
  /\ WriteLog(LogEntry(500, << >>, FALSE, -1))
  /\ RecordLb(req.name, 500)
  /\ req' = [req EXCEPT !.status_code = 500, !.outcome = "request_error"]
  /\ client' = [client EXCEPT !.status = 500, !.body = "error_detail"]
  /\ pc' = "done"
  /\ UNCHANGED << catalogVars, upstream, nreq, nops >>

\* The client is gone before the body iterator is advanced for the first
\* time: the generator never starts, so its finally block never runs.
ClientDisconnectBeforeStream ==
  /\ pc = "respond"
  /\ client' = [client EXCEPT !.connected = FALSE]
  /\ req' = [req EXCEPT !.outcome = "never_streamed"]
  /\ pc' = "done"
  /\ UNCHANGED << catalogVars, lbVars, upstream, hubVars, logVars,
                  lbCalls, nreq, nops >>

\* chunk_text.strip(): the chunk holds a byte that is not a blank
HasText(chunk) == \E i \in 1..Len(chunk) : chunk[i] # 32

\* chunk[:remaining]
Prefix(chunk, remaining) ==
  SubSeq(chunk, 1, IF remaining < Len(chunk) THEN remaining ELSE Len(chunk))

\* iterator(), lines 806-813: the logging tee
tee_collected(collected, chunk) ==
  IF Len(collected) < max_logged_response_bytes
  THEN collected \o Prefix(chunk, max_logged_response_bytes - Len(collected))
  ELSE collected

\* The tee raising its flag as soon as the buffer is full.
tee_truncated_when_full(truncated, collected, chunk) ==
  Len(collected) + Len(chunk) >= max_logged_response_bytes

tee_truncated(truncated, collected, chunk) ==
  IF Len(collected) < max_logged_response_bytes
  THEN truncated \/ Len(chunk) > max_logged_response_bytes - Len(collected)
  ELSE TRUE

\* The iterator yielding only what the logging tee had room for.
yielded_capped(chunk) ==
  Prefix(chunk, max_logged_response_bytes - Len(req.collected))

\* iterator(), line 814: what the iterator yields for a chunk it read.
yielded(chunk) == chunk

\* iterator(), lines 785-813: the next chunk of the upstream body, up to the
\* yield; an empty chunk is skipped.
IterNext(n) ==
  /\ pc \in {"respond", "iter"}
  /\ upstream.nchunks < MaxChunks
  /\ LET chunk == UpstreamBody(Len(upstream.produced), n)
     IN /\ upstream' = [upstream EXCEPT !.produced = @ \o chunk, !.nchunks = @ + 1]
        /\ IF chunk = << >>
           THEN /\ pc' = "iter"
                /\ UNCHANGED << req, hubVars >>
           ELSE /\ activeRequests' =
                     IF req.first_chunk
                     THEN hub_request_streaming(activeRequests, req.id)
                     ELSE activeRequests
                /\ Broadcast(
                     (IF req.first_chunk /\ req.id \in DOMAIN activeRequests
                      THEN << [type |-> "progress", request_id |-> req.id,
                               status |-> "STREAMING", status_code |-> 0] >>
                      ELSE << >>)
                     \o (IF HasText(chunk) /\ req.id \in DOMAIN activeRequests
                         THEN << [type |-> "progress", request_id |-> req.id,
                                  status |-> "delta", status_code |-> 0] >>
                         ELSE << >>))
                /\ req' = [req EXCEPT
                     !.first_chunk = FALSE,
                     !.total_response_bytes = @ + Len(chunk),
                     !.collected = tee_collected(req.collected, chunk),
                     !.response_truncated =
                        tee_truncated(req.response_truncated, req.collected, chunk),
                     !.chunk = yielded(chunk)]
                /\ pc' = "yield"
  /\ UNCHANGED << catalogVars, lbVars, client, logVars, lbCalls, nreq, nops >>

\* The client takes the chunk the iterator yielded.
ClientReceive ==
  /\ pc = "yield"
  /\ client' = [client EXCEPT !.bytes = @ \o req.chunk]
  /\ pc' = "iter"
  /\ UNCHANGED << catalogVars, lbVars, req, upstream, hubVars, logVars,
                  lbCalls, nreq, nops >>

\* The client disconnects while the iterator is suspended at its yield: the
\* generator is closed there and its finally block runs.
ClientDisconnect ==
  /\ pc = "yield"
  /\ client' = [client EXCEPT !.connected = FALSE]
  /\ req' = [req EXCEPT !.outcome = "disconnected"]
  /\ pc' = "fin_hub"
  /\ UNCHANGED << catalogVars, lbVars, upstream, hubVars, logVars,
                  lbCalls, nreq, nops >>

\* The upstream body ends: the loop of the iterator ends.
IterEnd ==
  /\ pc \in {"respond", "iter"}
  /\ req' = [req EXCEPT !.outcome = "streamed"]
  /\ pc' = "fin_hub"
  /\ UNCHANGED << catalogVars, lbVars, upstream, client, hubVars, logVars,
                  lbCalls, nreq, nops >>

\* iterator(), finally, lines 819-824: request_completed with
\* success = 200 <= status_code < 400
FinHub ==
  /\ pc = "fin_hub"
  /\ LET success == 200 <= req.status_code /\ req.status_code < 400
     IN /\ activeRequests' =
             hub_request_completed(activeRequests, req.id, req.status_code, success)
        /\ Broadcast(completed_event(activeRequests, req.id, req.status_code, success))
  /\ pc' = "fin_close"
  /\ UNCHANGED << catalogVars, lbVars, req, upstream, client, logVars,
                  lbCalls, nreq, nops >>

\* iterator(), finally, line 826: response.aclose()
FinClose ==
  /\ pc = "fin_close"
  /\ upstream' = [upstream EXCEPT !.closed = TRUE]
  /\ pc' = "fin_log"
  /\ UNCHANGED << catalogVars, lbVars, req, client, hubVars, logVars,
                  lbCalls, nreq, nops >>

\* iterator(), finally, lines 829-845: log_request with the captured bytes
FinLog ==
  /\ pc = "fin_log"
  /\ WriteLog(LogEntry(req.status_code, req.collected, req.response_truncated,
                       req.total_response_bytes))
  /\ pc' = "fin_lb"
  /\ UNCHANGED << catalogVars, lbVars, req, upstream, client, hubVars,
                  lbCalls, nreq, nops >>

\* iterator(), finally, lines 847-849
FinLb ==
  /\ pc = "fin_lb"
  /\ IF ~req.lb_result_recorded
     THEN RecordLb(req.name, req.status_code)
     ELSE UNCHANGED << lbVars, lbCalls >>
  /\ req' = [req EXCEPT !.lb_result_recorded = TRUE]
  /\ pc' = "done"
  /\ UNCHANGED << catalogVars, upstream, client, hubVars, logVars, nreq, nops >>

\* RealTimeRequestHub._delayed_cleanup, the task request_completed created
DelayedCleanup(request_id) ==
  /\ request_id \in DOMAIN activeRequests
  /\ activeRequests[request_id].cleanup
  /\ activeRequests' = DictDrop(activeRequests, {request_id})
  /\ UNCHANGED << catalogVars, lbVars, pc, req, upstream, client, hubEvents,
                  subVars, logVars, lbCalls, nreq, nops >>

\* ------------------------------------------------- the operator (UI server)
\* ui_server._config_signature
config_signature(config_entry) ==
  << config_entry.base_url, config_entry.auth_token, config_entry.api_key >>

NamesWithSignature(configs, sig) ==
  {configs[i].name : i \in {j \in 1..Len(configs) : config_signature(configs[j]) = sig}}

\* ui_server._detect_config_renames: old name -> new name for a signature
\* held by exactly one name before and exactly one, different, name after.
detect_config_renames(old_configs, new_configs) ==
  LET renamed == {i \in 1..Len(old_configs) :
        LET sig == config_signature(old_configs[i])
            old_names == NamesWithSignature(old_configs, sig)
            new_names == NamesWithSignature(new_configs, sig)
        IN Cardinality(old_names) = 1 /\ Cardinality(new_names) = 1
           /\ old_names # new_names}
  IN [o \in {old_configs[i].name : i \in renamed} |->
        CHOOSE n \in AllNames :
          \E i \in renamed : /\ old_configs[i].name = o
                             /\ NamesWithSignature(new_configs,
                                  config_signature(old_configs[i])) = {n}]

Renamed(rename_map, n) == IF n \in DOMAIN rename_map THEN rename_map[n] ELSE n

\* Keys of a dict in the order the model iterates them (by name).
RECURSIVE KeysInOrder(_)
KeysInOrder(ks) ==
  IF ks = {} THEN << >>
  ELSE LET k == CHOOSE x \in ks : \A y \in ks : NameOrd(x) <= NameOrd(y)
       IN << k >> \o KeysInOrder(ks \ {k})

RECURSIVE rename_failures(_, _, _)
rename_failures(keys, failures, rename_map) ==
  IF keys = << >> THEN EmptyDict
  ELSE LET k == keys[Len(keys)]
           before == rename_failures(SubSeq(keys, 1, Len(keys) - 1), failures, rename_map)
       IN DictPut(before, Renamed(rename_map, k), failures[k])

\* ui_server._sync_loadbalance_config_names
sync_loadbalance_config_names(lb, rename_map) ==
  IF DOMAIN rename_map = {} THEN lb
  ELSE [lb EXCEPT
         !.currentFailures =
            IF DOMAIN lb.currentFailures \cap DOMAIN rename_map # {}
            THEN rename_failures(KeysInOrder(DOMAIN lb.currentFailures),
                                 lb.currentFailures, rename_map)
            ELSE lb.currentFailures,
         !.excludedConfigs =
            [i \in 1..Len(lb.excludedConfigs) |->
               Renamed(rename_map, lb.excludedConfigs[i])]]

\* The items of rename_map in the order save_config's loop over the old
\* catalog inserted them.
RECURSIVE RenamePairs(_, _)
RenamePairs(old_configs, rename_map) ==
  IF old_configs = << >> THEN << >>
  ELSE (IF Head(old_configs).name \in DOMAIN rename_map
        THEN << << Head(old_configs).name, rename_map[Head(old_configs).name] >> >>
        ELSE << >>)
       \o RenamePairs(Tail(old_configs), rename_map)

\* ui_server._rename_history_channels: one rename after the other on the
\* same bucket: pop the old name, merge into the new name or assign.
RECURSIVE rename_history_channels(_, _)
rename_history_channels(service_bucket, renames) ==
  IF renames = << >> THEN service_bucket
  ELSE LET old_name == Head(renames)[1]
           new_name == Head(renames)[2]
           popped == DictDrop(service_bucket, {old_name})
           after ==
             IF old_name = new_name \/ old_name \notin DOMAIN service_bucket
             THEN service_bucket
             ELSE IF new_name \in DOMAIN popped
                  THEN DictPut(popped, new_name,
                               popped[new_name] + service_bucket[old_name])
                  ELSE DictPut(popped, new_name, service_bucket[old_name])
       IN rename_history_channels(after, Tail(renames))

\* ui_server._rename_log_channels
rename_log_channels(logs, rename_map) ==
  [i \in 1..Len(logs) |-> [logs[i] EXCEPT !.channel = Renamed(rename_map, @)]]

RECURSIVE ListWithout(_, _)
ListWithout(s, xs) ==
  IF s = << >> THEN << >>
  ELSE IF Head(s) \in xs THEN ListWithout(Tail(s), xs)
  ELSE << Head(s) >> \o ListWithout(Tail(s), xs)

\* ui_server._cleanup_loadbalance_config_references
cleanup_loadbalance_config_references(lb, deleted_configs) ==
  [lb EXCEPT !.currentFailures = DictDrop(@, deleted_configs),
             !.excludedConfigs = ListWithout(@, deleted_configs)]

\* ui_server.save_config: the catalog file is replaced; renames are applied
\* to the history file, the traffic log and the LB file, deleted names are
\* dropped from the LB file.
SaveCatalog(new_configs) ==
  /\ nops < MaxOperatorOps
  /\ nops' = nops + 1
  /\ new_configs # catalogFile
  /\ LET old_configs == catalogFile
         rename_map == detect_config_renames(old_configs, new_configs)
         deleted_configs == ConfigNames(old_configs) \ ConfigNames(new_configs)
         lb == cleanup_loadbalance_config_references(
                 sync_loadbalance_config_names(lbFile, rename_map), deleted_configs)
     IN /\ catalogFile' = new_configs
        /\ cmCache' = [cmCache EXCEPT !.fresh = FALSE]
        /\ history' = rename_history_channels(history,
                         RenamePairs(old_configs, rename_map))
        /\ trafficLog' = rename_log_channels(trafficLog, rename_map)
        /\ lbFile' = lb
        /\ lbFresh' = (lbFresh /\ lb = lbFile)
        /\ UNCHANGED << lbMem, pc, req, upstream, client, hubVars, logLimit,
                        lbCalls, nreq >>

LbModes == {"active-first", "weight-based"}

\* ui_server.save_loadbalance_config: the payload as normalised and written
save_loadbalance_config(data) ==
  [mode |-> data.mode,
   failureThreshold |-> IF data.failureThreshold <= 0 THEN DefaultThreshold
                        ELSE data.failureThreshold,
   currentFailures |-> data.currentFailures,
   excludedConfigs |-> data.excludedConfigs]

\* The operator edits mode and threshold of the configuration the UI loaded.
SaveLB(mode, threshold) ==
  /\ nops < MaxOperatorOps
  /\ nops' = nops + 1
  /\ lbFile' = save_loadbalance_config(
                 [lbFile EXCEPT !.mode = mode, !.failureThreshold = threshold])
  /\ lbFile' # lbFile
  /\ lbFresh' = FALSE
  /\ UNCHANGED << catalogVars, lbMem, pc, req, upstream, client, hubVars,
                  logVars, lbCalls, nreq >>

\* ui_server.reset_loadbalance_failures for one channel or (None) for all
reset_loadbalance_failures(lb, config_name) ==
  IF config_name # None
  THEN [lb EXCEPT
         !.currentFailures = IF config_name \in DOMAIN @
                             THEN [@ EXCEPT ![config_name] = 0] ELSE @,
         !.excludedConfigs = IF InList(config_name, @)
                             THEN ListRemove(@, config_name) ELSE @]
  ELSE [lb EXCEPT !.currentFailures = EmptyDict, !.excludedConfigs = << >>]

ResetFailures(config_name) ==
  /\ nops < MaxOperatorOps
  /\ nops' = nops + 1
  /\ lbFile' = reset_loadbalance_failures(lbFile, config_name)
  /\ lbFile' # lbFile
  /\ lbFresh' = FALSE
  /\ UNCHANGED << catalogVars, lbMem, pc, req, upstream, client, hubVars,
                  logVars, lbCalls, nreq >>

\* ------------------------------------------------- usage and the log's cap
\* logLimit values update_system_config accepts ({10, 30, 50, 100} in the
\* source, scaled; the default is among them).
LogLimits == {1, 2, 3}

\* Usage payloads an upstream returns for the metric.
UsagePayloads == {RawNone, RawInt(-1), RawInt(2), RawFloat(15), RawText}
UsageChannels == {"a", "b"}

\* The entry log_request builds for a finished request of the channel whose
\* response carried the usage payload raw.
UsageEntry(channel, raw) ==
  [request_id |-> nreq + 1, status_code |-> 200, channel |-> channel,
   response_content |-> << >>, response_truncated |-> FALSE,
   response_bytes |-> 0, usage |-> normalize_usage(raw)]

\* log_request: the entry of a finished request is written.
LogRequest(channel, raw) ==
  /\ nreq < MaxInserts
  /\ nreq' = nreq + 1
  /\ WriteLog(UsageEntry(channel, raw))
  /\ UNCHANGED << catalogVars, lbVars, pc, req, upstream, client, hubVars,
                  lbCalls, nops >>

\* log_request when _maintain_log_limit raises: reading the log fails
\* (nothing is done before the fallback), or opening it for the rewrite
\* fails (the discarded entries' usage is already in the history file);
\* the except branch appends the entry to the file as it is.
LogRequestWriteFails(channel, raw, failing) ==
  /\ nreq < MaxInserts
  /\ nreq' = nreq + 1
  /\ trafficLog' = Append(trafficLog, UsageEntry(channel, raw))
  /\ history' = IF failing = "rewrite"
                THEN save_discarded_logs_usage(history,
                       discarded_logs(trafficLog, UsageEntry(channel, raw), logLimit))
                ELSE history
  /\ UNCHANGED << catalogVars, lbVars, pc, req, upstream, client, hubVars,
                  logLimit, lbCalls, nops >>

\* ui_server.update_system_config: save system.json, trim the log.
UpdateSystemConfig(log_limit) ==
  /\ nops < MaxOperatorOps
  /\ nops' = nops + 1
  /\ log_limit \in LogLimits
  /\ logLimit' = log_limit
  /\ trafficLog' = trim_logs_to_limit(trafficLog, log_limit)
  /\ UNCHANGED << catalogVars, lbVars, pc, req, upstream, client, hubVars,
                  history, lbCalls, nreq >>

\* ui_server.clear_logs: the log's usage goes to the history file, the log
\* is emptied.
ClearLogs ==
  /\ nops < MaxOperatorOps
  /\ nops' = nops + 1
  /\ history' = IF trafficLog # << >>
                THEN merge_history_usage(history, aggregate_usage_from_logs(trafficLog))
                ELSE history
  /\ trafficLog' = << >>
  /\ UNCHANGED << catalogVars, lbVars, pc, req, upstream, client, hubVars,
                  logLimit, lbCalls, nreq >>

\* ui_server.clear_usage: the log is emptied and the history file reset.
ClearUsage ==
  /\ nops < MaxOperatorOps
  /\ nops' = nops + 1
  /\ history' = EmptyDict
  /\ trafficLog' = << >>
  /\ UNCHANGED << catalogVars, lbVars, pc, req, upstream, client, hubVars,
                  logLimit, lbCalls, nreq >>

\* CachedConfigManager.set_active_config, lines 145-164, called by the UI
\* server (ui_server.py:1095) or the command line on a manager of its own:
\* the cache is refreshed from the file, a name that is not in it is
\* refused, else the file is written by _save_configs. An exception of the
\* load is caught (line 162) and answered False. The proxy's cache sees a
\* file that was written by its mtime.
SetActiveConfig(config_name) ==
  /\ nops < MaxOperatorOps
  /\ nops' = nops + 1
  /\ LET loaded == try_load_configs(catalogShape, catalogFile)
         found == ~loaded.raised /\ config_name \in ConfigNames(loaded.configs)
         written == found \/ catalogShape = "unparseable"
     IN /\ catalogFile' = IF found
                          THEN save_configs(loaded.configs, config_name, catalogFile)
                          ELSE loaded.file
        /\ catalogShape' = loaded.shape
        /\ cmCache' = [cmCache EXCEPT !.fresh = @ /\ ~written]
        /\ call' = [fn |-> "set_active_config", config_name |-> config_name,
                    result |-> found]
  /\ UNCHANGED << lbVars, pc, req, upstream, client, activeRequests, hubEvents,
                  connections, received, record, routing_config, writers,
                  taskVars, logVars, lbCalls, nreq >>

\* ------------------------------------------- concurrent writes of the log
\* log_request, line 226: a finished request hands _write_log to a thread.
WriterStart(w, channel) ==
  /\ writers[w].pc = "idle"
  /\ nreq < MaxInserts
  /\ nreq' = nreq + 1
  /\ writers' = [writers EXCEPT ![w] = [pc |-> "read", request_id |-> nreq + 1,
                                        channel |-> channel, max_logs |-> 0,
                                        existing_logs |-> << >>]]
  /\ UNCHANGED << catalogVars, lbVars, pc, req, upstream, client,
                  activeRequests, hubEvents, connections, received, record,
                  logVars, lbCalls, nops, catalogShape, routing_config, call,
                  taskVars >>

\* _maintain_log_limit, lines 299-322: the thread reads logLimit from
\* system.json and the entries of the log file; no lock is taken.
WriterRead(w) ==
  /\ writers[w].pc = "read"
  /\ writers' = [writers EXCEPT ![w].pc = "rewrite", ![w].max_logs = logLimit,
                                ![w].existing_logs = trafficLog]
  /\ UNCHANGED << catalogVars, lbVars, pc, req, upstream, client,
                  activeRequests, hubEvents, connections, received, record,
                  logVars, lbCalls, nreq, nops, catalogShape, routing_config,
                  call, taskVars >>

\* _maintain_log_limit, lines 324-338: the thread appends its entry to what
\* it read, hands the entries beyond the cap to the history and rewrites
\* the whole file.
WriterRewrite(w) ==
  /\ writers[w].pc = "rewrite"
  /\ LET new_log_entry ==
           [UsageEntry(writers[w].channel, RawInt(1))
              EXCEPT !.request_id = writers[w].request_id]
     IN /\ history' = save_discarded_logs_usage(history,
                        discarded_logs(writers[w].existing_logs, new_log_entry,
                                       writers[w].max_logs))
        /\ trafficLog' = maintain_log_limit(writers[w].existing_logs,
                                            new_log_entry, writers[w].max_logs)
  /\ writers' = [writers EXCEPT ![w].pc = "idle"]
  /\ UNCHANGED << catalogVars, lbVars, pc, req, upstream, client,
                  activeRequests, hubEvents, connections, received, record,
                  logLimit, lbCalls, nreq, nops, catalogShape, routing_config,
                  call, taskVars >>

\* --------------------------------------------------- subscribers of the hub
\* self.connections.add and self.connections.discard while the for statement
\* of a broadcast_event call is suspended at a send: the iterator's set has
\* changed. A socket that joins is a new WebSocket object, which the
\* iterator has not yielded.
SetChanged(s, joins) ==
  IF sending.state = "none" THEN sending
  ELSE [sending EXCEPT !.joined = IF joins THEN @ \cup {s} ELSE @,
                       !.left = IF joins THEN @ ELSE @ \cup {s},
                       !.visited = IF joins THEN @ \ {s} ELSE @]

\* websocket_endpoint and RealTimeRequestHub.connect: a new connection is
\* added and sent the snapshot.
Connect(s) ==
  /\ s \notin connections
  /\ connections' = connections \cup {s}
  /\ received' = [received EXCEPT
                    ![s] = send_snapshot(activeRequests, DOMAIN activeRequests)]
  /\ sending' = SetChanged(s, TRUE)
  /\ UNCHANGED << catalogVars, lbVars, pc, req, upstream, client,
                  activeRequests, hubEvents, record, logVars, lbCalls, nreq,
                  nops, catalogShape, routing_config, writers, call, lbWorkers,
                  siblingLb, clearing >>

\* RealTimeRequestHub.disconnect
Disconnect(s) ==
  /\ s \in connections
  /\ connections' = connections \ {s}
  /\ sending' = SetChanged(s, FALSE)
  /\ UNCHANGED << catalogVars, lbVars, pc, req, upstream, client,
                  activeRequests, hubEvents, received, record, logVars,
                  lbCalls, nreq, nops, catalogShape, routing_config, writers,
                  call, lbWorkers, siblingLb, clearing >>

\* ------------------------------------------------- a record's response_chunks
Chunk(n) == [marker |-> FALSE, len |-> n]
Marker == [marker |-> TRUE, len |-> truncation_marker_len]

\* sum(len(c) for c in request.response_chunks)
RECURSIVE current_length(_)
current_length(response_chunks) ==
  IF response_chunks = << >> THEN 0
  ELSE Head(response_chunks).len + current_length(Tail(response_chunks))

\* RealTimeRequestHub.response_chunk on the record of a request the hub
\* holds: a chunk of n characters at duration_ms.
ResponseChunk(n, duration_ms) ==
  /\ Len(record.response_chunks) < MaxHubChunks
     \/ current_length(record.response_chunks) >= max_response_length
  /\ record' =
       [response_chunks |->
          IF current_length(record.response_chunks) < max_response_length
          THEN Append(record.response_chunks, Chunk(n))
          ELSE IF ~record.response_truncated
               THEN Append(record.response_chunks, Marker)
               ELSE record.response_chunks,
        response_truncated |->
          IF current_length(record.response_chunks) < max_response_length
          THEN record.response_truncated
          ELSE TRUE,
        duration_ms |-> duration_ms]
  /\ UNCHANGED << catalogVars, lbVars, pc, req, upstream, client,
                  activeRequests, hubEvents, connections, received, logVars,
                  lbCalls, nreq, nops, extVars >>

\* proxy(), lines 718-725: request_started of a hub with max_requests =
\* MaxRecords. datetime.now() is the local wall clock (it is set back at the
\* end of daylight saving time and by clock corrections, and two readings
\* within its resolution are equal). No await stands between the insert and
\* the cleanup; the started event is the record's asdict.
HubStartCapped(now) ==
  /\ pc = "hub_start"
  /\ activeRequests' =
       request_started(activeRequests, req.id, req.name, now, MaxRecords)
  /\ Broadcast(<< [type |-> "started", request_id |-> req.id,
                   status |-> "PENDING", status_code |-> 0,
                   start_time |-> now] >>)
  /\ pc' = "send"
  /\ UNCHANGED << catalogVars, lbVars, req, upstream, client, logVars,
                  lbCalls, nreq, nops >>

\* ------------------------------- clear_logs step by step (the UI server)
othersThanClearing ==
  << catalogVars, lbVars, pc, req, upstream, client, activeRequests,
     hubEvents, connections, received, record, logLimit, lbCalls, nreq,
     catalogShape, routing_config, writers, call, sending, lbWorkers,
     siblingLb >>

\* clear_logs, line 983: logs = load_logs(); no lock is taken on the file.
ClearLoadLogs ==
  /\ clearing.pc = "idle"
  /\ nops < MaxOperatorOps
  /\ nops' = nops + 1
  /\ clearing' = [pc |-> "merge", logs |-> trafficLog]
  /\ UNCHANGED << trafficLog, history, othersThanClearing >>

\* clear_logs, lines 984-989: the usage of the entries read is merged into
\* the history file.
ClearSaveHistory ==
  /\ clearing.pc = "merge"
  /\ history' = IF clearing.logs # << >>
                THEN merge_history_usage(history,
                                         aggregate_usage_from_logs(clearing.logs))
                ELSE history
  /\ clearing' = [clearing EXCEPT !.pc = "empty"]
  /\ UNCHANGED << trafficLog, nops, othersThanClearing >>

\* clear_logs, lines 991-996: the log file is written empty, whatever it
\* holds by now.
ClearWriteEmpty ==
  /\ clearing.pc = "empty"
  /\ trafficLog' = << >>
  /\ clearing' = ClearingInit
  /\ UNCHANGED << history, nops, othersThanClearing >>

\* ------------------------------------ concurrent updates of the LB state
othersThanLbWorkers ==
  << catalogVars, pc, req, upstream, client, activeRequests, hubEvents,
     connections, received, record, catalogShape, routing_config, writers,
     call, sending, clearing, nops >>

\* The 'service' of a log entry (log_request, line 183): the entries of the
\* proxy modelled are its own.
ServiceOf(entry) ==
  IF "service" \in DOMAIN entry THEN entry.service ELSE service_name

OwnEntries(logs) == SelectSeq(logs, LAMBDA entry : ServiceOf(entry) = service_name)

\* _maintain_log_limit on the log file both proxies write: the entries
\* beyond the cap are discarded whatever their service, and
\* _save_discarded_logs_usage adds their usage to the bucket of their
\* service (history holds the bucket of the proxy modelled).
WriteSharedLog(new_log_entry) ==
  /\ history' = save_discarded_logs_usage(history,
                   OwnEntries(discarded_logs(trafficLog, new_log_entry, logLimit)))
  /\ trafficLog' = maintain_log_limit(trafficLog, new_log_entry, logLimit)
  /\ UNCHANGED logLimit

\* proxy(), lines 881-894 (and 829-848): a request on the channel ends with
\* status 500; log_request writes its entry, then _record_lb_result is
\* handed to a thread.
RequestFails(t, config_name) ==
  /\ lbWorkers[t].pc = "idle"
  /\ nreq < MaxLbResults
  /\ nreq' = nreq + 1
  /\ WriteSharedLog([UsageEntry(config_name, RawInt(1)) EXCEPT !.status_code = 500])
  /\ lbWorkers' = [lbWorkers EXCEPT ![t] =
       [pc |-> "ensure", config_name |-> config_name, threshold |-> 0,
        new_count |-> 0, changed |-> FALSE, detached |-> FALSE,
        section |-> None]]
  /\ lbCalls' = Append(lbCalls, [name |-> config_name, status_code |-> 500])
  /\ UNCHANGED << lbVars, siblingLb, othersThanLbWorkers >>

\* The dict a thread's failures and excluded refer to.
SectionOf(t) ==
  IF lbWorkers[t].detached THEN lbWorkers[t].section ELSE lbMem

\* _record_lb_result, lines 585-593: _ensure_lb_config_current reloads the
\* file when its signature changed and rebinds self.lb_config, so that the
\* threads past this point keep the dict they hold; outside weight-based
\* mode the call returns; else the thread takes the section's threshold,
\* failures and excluded.
WorkerEnsure(t) ==
  /\ lbWorkers[t].pc = "ensure"
  /\ lbMem' = ensure_lb_config_current
  /\ lbFresh' = TRUE
  /\ siblingLb' = [siblingLb EXCEPT !.mem = IF lbFresh THEN @ ELSE siblingLb.file]
  /\ lbWorkers' =
       [u \in Workers |->
          IF u = t
          THEN [lbWorkers[t] EXCEPT
                  !.pc = IF ensure_lb_config_current.mode = "weight-based"
                         THEN "read" ELSE "idle",
                  !.threshold = ensure_lb_config_current.failureThreshold]
          ELSE IF ~lbFresh /\ lbWorkers[u].pc \in {"read", "write"}
                  /\ ~lbWorkers[u].detached
               THEN [lbWorkers[u] EXCEPT !.detached = TRUE, !.section = lbMem]
               ELSE lbWorkers[u]]
  /\ UNCHANGED << lbFile, logVars, nreq, lbCalls, othersThanLbWorkers >>

\* _record_lb_result, line 607: new_count = failures.get(config_name, 0) + 1
WorkerRead(t) ==
  /\ lbWorkers[t].pc = "read"
  /\ lbWorkers' = [lbWorkers EXCEPT
       ![t].pc = "write",
       ![t].new_count =
          DictGet(SectionOf(t).currentFailures, lbWorkers[t].config_name, 0) + 1]
  /\ UNCHANGED << lbVars, logVars, nreq, lbCalls, siblingLb, othersThanLbWorkers >>

\* _record_lb_result, lines 608-613: the count is stored unless it is there
\* already, and the channel is excluded at the threshold.
WorkerWrite(t) ==
  /\ lbWorkers[t].pc = "write"
  /\ LET w == lbWorkers[t]
         section == SectionOf(t)
         store == \/ w.config_name \notin DOMAIN section.currentFailures
                  \/ section.currentFailures[w.config_name] # w.new_count
         exclude == w.new_count >= w.threshold
                    /\ ~InList(w.config_name, section.excludedConfigs)
         after == [section EXCEPT
                     !.currentFailures =
                        IF store THEN DictPut(@, w.config_name, w.new_count) ELSE @,
                     !.excludedConfigs =
                        IF exclude THEN Append(@, w.config_name) ELSE @]
     IN /\ lbMem' = IF w.detached THEN lbMem ELSE after
        /\ lbWorkers' = [lbWorkers EXCEPT
             ![t].pc = IF store \/ exclude THEN "persist" ELSE "idle",
             ![t].changed = store \/ exclude,
             ![t].section = IF w.detached THEN after ELSE None]
  /\ UNCHANGED << lbFile, lbFresh, logVars, nreq, lbCalls, siblingLb,
                  othersThanLbWorkers >>

\* _record_lb_result, lines 614-615, and _persist_lb_config: self.lb_config
\* is dumped whole, the sibling's section with it, and the signature taken.
WorkerPersist(t) ==
  /\ lbWorkers[t].pc = "persist"
  /\ lbFile' = lbMem
  /\ lbFresh' = TRUE
  /\ siblingLb' = [siblingLb EXCEPT !.file = siblingLb.mem]
  /\ lbWorkers' = [lbWorkers EXCEPT ![t].pc = "idle"]
  /\ UNCHANGED << lbMem, logVars, nreq, lbCalls, othersThanLbWorkers >>

\* The sibling proxy ends a request of its own with status 500: its
\* _maintain_log_limit writes the entry to the log file and, in weight-based
\* mode, its _record_lb_result persists its section's counters.
SiblingRequestFails ==
  /\ siblingLb.nlogs < MaxSiblingWrites
  /\ WriteSharedLog([service |-> sibling_name]
                    @@ [UsageEntry("a", RawInt(1))
                          EXCEPT !.request_id = -(siblingLb.nlogs + 1),
                                 !.status_code = 500])
  /\ siblingLb' = [siblingLb EXCEPT
       !.nlogs = @ + 1,
       !.file = record_lb_result([@ EXCEPT !.mode = lbFile.mode], "a", 500)]
  /\ lbFresh' = (lbFresh /\ lbFile.mode # "weight-based")
  /\ UNCHANGED << lbFile, lbMem, lbCalls, nreq, lbWorkers, othersThanLbWorkers >>

\* ------------------------------------ broadcasts suspended at their sends
\* The sockets that may subscribe while a broadcast is under way.
Sockets == {"s1", "s2"}

othersThanBroadcast ==
  << catalogVars, lbVars, req, upstream, client, record, logVars, lbCalls,
     nreq, nops, catalogShape, routing_config, writers, call, lbWorkers,
     siblingLb, clearing >>

\* RealTimeRequestHub.broadcast_event, lines 91-107: without connections the
\* call returns at once; else the for statement creates the iterator of
\* self.connections, which keeps the size the set has now. A hub method
\* that returned before its broadcast hands no event.
BeginBroadcast(caller, events, resume) ==
  /\ hubEvents' = hubEvents \o events
  /\ IF connections = {} \/ events = << >>
     THEN /\ pc' = resume
          /\ UNCHANGED sending
     ELSE /\ pc' = "broadcast"
          /\ sending' = [state |-> "iterating", caller |-> caller,
                         events |-> events, resume |-> resume,
                         si_used |-> Cardinality(connections),
                         started |-> connections, visited |-> {},
                         disconnected |-> {}, target |-> None,
                         delivered |-> {}, joined |-> {}, left |-> {}]

\* broadcast_event, lines 107-109: the iterator finds the set as large as it
\* was and yields a connection; send_text is awaited, so other tasks run.
SendNext(s) ==
  /\ pc = "broadcast"
  /\ sending.state = "iterating"
  /\ Cardinality(connections) = sending.si_used
  /\ s \in connections \ sending.visited
  /\ sending' = [sending EXCEPT !.state = "awaiting", !.target = s,
                                !.visited = @ \cup {s}]
  /\ UNCHANGED << pc, activeRequests, hubEvents, connections, received,
                  othersThanBroadcast >>

\* The socket takes the message: send_text returns.
SendReturns ==
  /\ pc = "broadcast"
  /\ sending.state = "awaiting"
  /\ received' = [received EXCEPT ![sending.target] = @ \o sending.events]
  /\ sending' = [sending EXCEPT !.state = "iterating",
                                !.delivered = @ \cup {sending.target}]
  /\ UNCHANGED << pc, activeRequests, hubEvents, connections,
                  othersThanBroadcast >>

\* broadcast_event, lines 110-112: send_text raises and the connection is
\* noted as disconnected.
SendRaises ==
  /\ pc = "broadcast"
  /\ sending.state = "awaiting"
  /\ sending' = [sending EXCEPT !.state = "iterating",
                                !.disconnected = @ \cup {sending.target}]
  /\ UNCHANGED << pc, activeRequests, hubEvents, connections, received,
                  othersThanBroadcast >>

\* broadcast_event, line 107: the set changed size while send_text was
\* awaited, so the iterator raises RuntimeError. broadcast_event does not
\* catch it; the except clause of the hub method (lines 145, 158, 186, 211)
\* logs it and the method returns, its remaining statements skipped.
IterationRaises ==
  /\ pc = "broadcast"
  /\ sending.state = "iterating"
  /\ Cardinality(connections) # sending.si_used
  /\ pc' = sending.resume
  /\ sending' = NoBroadcast
  /\ UNCHANGED << activeRequests, hubEvents, connections, received,
                  othersThanBroadcast >>

\* broadcast_event, lines 107 and 114-117: the iteration ends (over a set of
\* the same size but other members, the iterator may end with members
\* unseen), the connections that failed are removed and the hub method goes
\* on: request_completed creates the cleanup task (line 210).
IterationEnds ==
  /\ pc = "broadcast"
  /\ sending.state = "iterating"
  /\ Cardinality(connections) = sending.si_used
  /\ connections \subseteq sending.visited
     \/ sending.joined \cup sending.left # {}
  /\ connections' = connections \ sending.disconnected
  /\ activeRequests' =
       IF sending.caller = "request_completed" /\ req.id \in DOMAIN activeRequests
       THEN [activeRequests EXCEPT ![req.id].cleanup = TRUE]
       ELSE activeRequests
  /\ pc' = sending.resume
  /\ sending' = NoBroadcast
  /\ UNCHANGED << hubEvents, received, othersThanBroadcast >>

\* proxy(), lines 718-725: request_started up to its broadcast
HubStartBegin ==
  /\ pc = "hub_start"
  /\ activeRequests' = hub_request_started(activeRequests, req.id, req.name)
  /\ BeginBroadcast("request_started",
                    << [type |-> "started", request_id |-> req.id,
                        status |-> "PENDING", status_code |-> 0] >>, "send")
  /\ UNCHANGED << connections, received, othersThanBroadcast >>

\* iterator(), lines 785-788: the next chunk of the upstream body is read; an
\* empty chunk is skipped.
IterRead(n) ==
  /\ pc \in {"respond", "iter"}
  /\ upstream.nchunks < MaxChunks
  /\ LET chunk == UpstreamBody(Len(upstream.produced), n)
     IN /\ upstream' = [upstream EXCEPT !.produced = @ \o chunk, !.nchunks = @ + 1]
        /\ req' = [req EXCEPT !.chunk = chunk]
        /\ pc' = IF chunk = << >> THEN "iter" ELSE "iter_streaming"
  /\ UNCHANGED << catalogVars, lbVars, client, hubVars, logVars, lbCalls,
                  nreq, nops >>

\* iterator(), lines 792-795: request_streaming on the first chunk, up to its
\* broadcast
IterStreaming ==
  /\ pc = "iter_streaming"
  /\ IF req.first_chunk
     THEN /\ activeRequests' = hub_request_streaming(activeRequests, req.id)
          /\ BeginBroadcast("request_streaming",
               IF req.id \in DOMAIN activeRequests
               THEN << [type |-> "progress", request_id |-> req.id,
                        status |-> "STREAMING", status_code |-> 0] >>
               ELSE << >>, "iter_chunk")
     ELSE /\ pc' = "iter_chunk"
          /\ UNCHANGED << activeRequests, hubEvents, sending >>
  /\ req' = [req EXCEPT !.first_chunk = FALSE]
  /\ UNCHANGED << catalogVars, lbVars, upstream, client, connections,
                  received, record, logVars, lbCalls, nreq, nops,
                  catalogShape, routing_config, writers, call, lbWorkers,
                  siblingLb, clearing >>

\* iterator(), lines 797-804: response_chunk for a chunk that holds text, up
\* to its broadcast
IterResponseChunk ==
  /\ pc = "iter_chunk"
  /\ BeginBroadcast("response_chunk",
       IF HasText(req.chunk) /\ req.id \in DOMAIN activeRequests
       THEN << [type |-> "progress", request_id |-> req.id,
                status |-> "delta", status_code |-> 0] >>
       ELSE << >>, "iter_tee")
  /\ UNCHANGED << activeRequests, connections, received, othersThanBroadcast >>

\* iterator(), lines 806-814: the logging tee and the yield
IterTee ==
  /\ pc = "iter_tee"
  /\ req' = [req EXCEPT
       !.total_response_bytes = @ + Len(req.chunk),
       !.collected = tee_collected(req.collected, req.chunk),
       !.response_truncated =
          tee_truncated(req.response_truncated, req.collected, req.chunk),
       !.chunk = yielded(req.chunk)]
  /\ pc' = "yield"
  /\ UNCHANGED << catalogVars, lbVars, upstream, client, hubVars, logVars,
                  lbCalls, nreq, nops >>

\* iterator(), finally, lines 819-824: request_completed up to its
\* broadcast; without a broadcast to await, the cleanup task is created.
FinHubBegin ==
  /\ pc = "fin_hub"
  /\ LET success == 200 <= req.status_code /\ req.status_code < 400
         completed == hub_request_completed(activeRequests, req.id,
                                            req.status_code, success)
     IN /\ activeRequests' =
             IF connections = {} \/ req.id \notin DOMAIN activeRequests
             THEN completed
             ELSE [completed EXCEPT ![req.id].cleanup = FALSE]
        /\ BeginBroadcast("request_completed",
             completed_event(activeRequests, req.id, req.status_code, success),
             "fin_close")
  /\ UNCHANGED << connections, received, othersThanBroadcast >>

\* proxy(), lines 856-879: httpx.RequestError from send; request_completed
\* up to its broadcast
RequestErrorBegin ==
  /\ pc = "await_response"
  /\ LET completed == hub_request_completed(activeRequests, req.id, 500, FALSE)
     IN /\ activeRequests' =
             IF connections = {} \/ req.id \notin DOMAIN activeRequests
             THEN completed
             ELSE [completed EXCEPT ![req.id].cleanup = FALSE]
        /\ BeginBroadcast("request_completed",
             completed_event(activeRequests, req.id, 500, FALSE), "error_log")
  /\ UNCHANGED << connections, received, othersThanBroadcast >>

\* proxy(), lines 881-896: the log entry, the LB record and the 500 answer
RequestErrorEnd ==
  /\ pc = "error_log"
  /\ WriteLog(LogEntry(500, << >>, FALSE, -1))
  /\ RecordLb(req.name, 500)
  /\ req' = [req EXCEPT !.status_code = 500, !.outcome = "request_error"]
  /\ client' = [client EXCEPT !.status = 500, !.body = "error_detail"]
  /\ pc' = "done"
  /\ UNCHANGED << catalogVars, upstream, hubVars, nreq, nops >>

\* ------------------------------------------------------------ specifications
LbInit(modes, thresholds) ==
  \E m \in modes, t \in thresholds :
    lbFile = [default_lb_config(m) EXCEPT !.failureThreshold = t]

\* The streaming path of a request, whatever the catalog and the LB mode.
Init ==
  /\ catalogFile \in {CatEmpty, CatAB}
  /\ LbInit(LbModes, {MaxThreshold})
  /\ InitCommon

RequestStep(statuses) ==
  \/ BuildReadConfigs
  \/ BuildSelect
  \/ BuildLookup
  \/ BuildFallbackActive
  \/ BuildFallbackLookup
  \/ HubStart
  \/ SendRequest
  \/ \E status_code \in statuses : UpstreamResponds(status_code)
  \/ UpstreamRequestError
  \/ IterEnd
  \/ FinHub
  \/ FinClose
  \/ FinLog
  \/ FinLb

ProxyStep(limit, statuses) == Arrive(limit) \/ RequestStep(statuses)

StreamStep ==
  \/ ClientDisconnectBeforeStream
  \/ \E n \in 0..MaxChunkLen : IterNext(n)
  \/ ClientReceive
  \/ ClientDisconnect

Next == ProxyStep(MaxRequests, Statuses) \/ StreamStep

Spec == Init /\ [][Next]_vars

\* The same with the hub's cleanup tasks running between the steps.
HubStep == \E request_id \in 1..nreq : DelayedCleanup(request_id)

NextHub == Next \/ HubStep

SpecHub == Init /\ [][NextHub]_vars

\* Sequential requests with the operator editing the LB file meanwhile
\* (upstream bodies are empty here).
InitLB ==
  /\ catalogFile \in {CatEmpty, CatAB, CatScenario4, CatFailover}
  /\ LbInit(LbModes, 1..MaxThreshold)
  /\ InitCommon

OperatorLbStep ==
  \/ \E mode \in LbModes, threshold \in 0..MaxThreshold : SaveLB(mode, threshold)
  \/ \E config_name \in AllNames \cup {None} : ResetFailures(config_name)

NextLB == ProxyStep(MaxLbRequests, LbStatuses) \/ OperatorLbStep

SpecLB == InitLB /\ [][NextLB]_vars

\* Requests with the operator saving the catalog meanwhile.
InitCatalog ==
  /\ catalogFile \in Catalogs
  /\ LbInit(LbModes, {1})
  /\ InitCommon

NextCatalog ==
  \/ ProxyStep(MaxCatRequests, LbStatuses)
  \/ \E new_configs \in Catalogs : SaveCatalog(new_configs)

SpecCatalog == InitCatalog /\ [][NextCatalog]_vars

\* The request handler with the hub's cleanup tasks and a subscriber that
\* connects and disconnects meanwhile.
SubscriberStep == \E s \in Subscribers : Connect(s) \/ Disconnect(s)

NextSub == NextHub \/ SubscriberStep

SpecSub == Init /\ [][NextSub]_vars

\* The hub's lifecycle under the scheduling of the event loop: a handler
\* that can take its next step takes it, the upstream answers and delivers
\* its body, a client that stays takes the chunk yielded, and a cleanup task
\* runs when its delay is over. Nothing obliges a client to stay or a new
\* request to arrive.
HandlerStep ==
  \/ BuildReadConfigs
  \/ BuildSelect
  \/ BuildLookup
  \/ BuildFallbackActive
  \/ BuildFallbackLookup
  \/ HubStart
  \/ SendRequest
  \/ \E status_code \in Statuses : UpstreamResponds(status_code)
  \/ IterEnd
  \/ FinHub
  \/ FinClose
  \/ FinLog
  \/ FinLb
  \/ \E n \in 0..MaxChunkLen : IterNext(n)
  \/ ClientReceive

SpecHubFair ==
  Init /\ [][NextHub]_vars /\ WF_vars(HandlerStep) /\ WF_vars(HubStep)

\* Entries written to the log one after the other, with the operator
\* changing logLimit, clearing the log or the usage and saving the catalog
\* meanwhile.
InitUsage ==
  /\ catalogFile = CatAB
  /\ LbInit({"active-first"}, {MaxThreshold})
  /\ InitCommon

NextUsage ==
  \/ \E channel \in UsageChannels, raw \in UsagePayloads : LogRequest(channel, raw)
  \/ \E log_limit \in LogLimits : UpdateSystemConfig(log_limit)
  \/ ClearLogs
  \/ ClearUsage
  \/ \E new_configs \in UsageCatalogs : SaveCatalog(new_configs)

SpecUsage == InitUsage /\ [][NextUsage]_vars

\* The same with writes of the log that fail.
NextLogFail ==
  \/ NextUsage
  \/ \E channel \in UsageChannels, raw \in UsagePayloads,
        failing \in {"read", "rewrite"} :
          LogRequestWriteFails(channel, raw, failing)

SpecLogFail == InitUsage /\ [][NextLogFail]_vars

\* One hub record fed by response_chunk calls.
NextChunks ==
  \E n \in 0..MaxHubChunkLen, duration_ms \in 1..2 : ResponseChunk(n, duration_ms)

SpecChunks == InitUsage /\ [][NextChunks]_vars

\* The catalog manager: requests of the proxy and set_active_config, on a
\* catalog file of any order and flags, or on a file that holds no catalog.
\* CatKeyOnly has a channel without auth_token, CatLate has its active
\* channel last.
CatKeyOnly ==
  << Chan("b", 1, TRUE),
     [name |-> "a", base_url |-> "https://a", auth_token |-> NoVal,
      api_key |-> "key-a", weight |-> 1, active |-> FALSE] >>
CatLate == << Chan("c", 1, FALSE), Chan("a", 2, FALSE), Chan("b", 1, TRUE) >>
ManagerCatalogs == {CatEmpty, CatAB, CatBA, CatB, CatKeyOnly, CatLate}

InitManager ==
  /\ \/ catalogFile \in ManagerCatalogs /\ catalogShape = "catalog"
     \/ catalogFile = CatEmpty /\ catalogShape \in FileShapes \ {"catalog"}
  /\ LbInit({"active-first"}, {1})
  /\ InitBase
  /\ routing_config = default_routing_config
  /\ call = NoCall

NextManager ==
  \/ ProxyStep(MaxCatRequests, LbStatuses)
  \/ BuildReadUnloadable
  \/ \E config_name \in AllNames : SetActiveConfig(config_name)

SpecManager == InitManager /\ [][NextManager]_vars

\* The routing of requests in the mode config-mapping: router files as
\* save_routing_config (ui_server.py) writes them, with the texts of the
\* mappings as the operator typed them, and bodies naming a model or none.
Mapping(model, config) == [model |-> model, config |-> config]
MappingLists ==
  { << Mapping("m1", "b") >>,
    << Mapping("m1", "zz"), Mapping("m1", "b") >>,
    << Mapping("m1", "a"), Mapping("m1", "b") >>,
    << Mapping("m1 ", "b") >>,
    << Mapping("m1", " b") >>,
    << Mapping("", "b"), Mapping("m2", " ") >> }
RoutingConfigs ==
  {default_routing_config}
    \cup {[mode |-> "config-mapping", configMappings |-> mappings] :
            mappings \in MappingLists}
BodyModels == {NoVal, "", "m1", "m1 ", "m2"}

InitRouting ==
  /\ catalogFile \in {CatEmpty, CatAB, CatB}
  /\ LbInit(LbModes, {1})
  /\ InitBase
  /\ catalogShape = "catalog"
  /\ routing_config \in RoutingConfigs
  /\ call = NoCall

NextRouting ==
  \/ \E model \in BodyModels : ArriveBody(MaxRequests, model)
  \/ BuildRouting
  \/ RequestStep(LbStatuses)

SpecRouting == InitRouting /\ [][NextRouting]_vars

\* ------------------------------------------------- the headers of a request
\* The steps of proxy() that handle headers, for one request: the headers a
\* client sent and the channel chosen are the inputs.
Optional(values) == values \cup {NoVal}
HeaderDict(names, value(_)) == [k \in {x \in names : value(x) # NoVal} |-> value(k)]

ClientHeaders ==
  { HeaderDict({"authorization", "Authorization", "x-api-key", "X-Api-Key",
                "Cookie", "accept"},
       LAMBDA k : CASE k = "authorization" -> auth
                    [] k = "Authorization" -> Auth
                    [] k = "x-api-key" -> key
                    [] k = "X-Api-Key" -> Key
                    [] k = "Cookie" -> cookie
                    [] OTHER -> "json") :
      auth \in Optional({"Bearer client-1", "Bearer client-2"}),
      Auth \in Optional({"Bearer client-1"}),
      key \in Optional({"client-key"}),
      Key \in Optional({"client-key"}),
      cookie \in Optional({"session-1"}) }

ChannelConfigs ==
  { [name |-> "a", base_url |-> "https://a", auth_token |-> t, api_key |-> k] :
      t \in {"", "tok-a"}, k \in {NoVal, "", "key-a"} }

UpstreamHeaders ==
  { HeaderDict({"content-type", "Connection", "connection",
                "Transfer-Encoding", "transfer-encoding"},
       LAMBDA k : CASE k = "Connection" -> C
                    [] k = "connection" -> c
                    [] k = "Transfer-Encoding" -> T
                    [] k = "transfer-encoding" -> t
                    [] OTHER -> "text/event-stream") :
      C \in Optional({"close"}), c \in Optional({"keep-alive"}),
      T \in Optional({"chunked"}), t \in Optional({"chunked"}) }

othersThanCall ==
  << catalogVars, lbVars, pc, req, upstream, client, activeRequests,
     hubEvents, connections, received, record, logVars, lbCalls, nreq, nops,
     catalogShape, routing_config, writers, taskVars >>

InitHeaders ==
  /\ catalogFile = CatAB
  /\ LbInit({"active-first"}, {1})
  /\ InitBase
  /\ catalogShape = "catalog"
  /\ routing_config = default_routing_config
  /\ \E h \in ClientHeaders, config_data \in ChannelConfigs :
       call = [fn |-> "proxy", stage |-> "arrived", original_headers |-> h,
               config_data |-> config_data, target_headers |-> EmptyDict,
               hub_headers |-> EmptyDict, event_headers |-> EmptyDict,
               snapshot_headers |-> EmptyDict, upstream_headers |-> EmptyDict,
               response_headers |-> EmptyDict]

\* build_target_param, lines 663-671
BuildHeaders ==
  /\ call.stage = "arrived"
  /\ call' = [call EXCEPT
       !.stage = "built",
       !.target_headers = target_headers(call.original_headers, "a",
                                         call.config_data)]
  /\ UNCHANGED othersThanCall

\* RealTimeRequestHub.request_started, lines 120-146: the record holds the
\* sanitized headers and the started event is the record's asdict.
StartedHeaders ==
  /\ call.stage = "built"
  /\ call' = [call EXCEPT
       !.stage = "started",
       !.hub_headers = sanitize_headers(call.target_headers),
       !.event_headers = sanitize_headers(call.target_headers)]
  /\ UNCHANGED othersThanCall

\* RealTimeRequestHub._send_snapshot: asdict of the record
SnapshotHeaders ==
  /\ call.stage = "started"
  /\ call' = [call EXCEPT !.stage = "snapshot",
                          !.snapshot_headers = call.hub_headers]
  /\ UNCHANGED othersThanCall

\* proxy(), lines 762-775 and 851-855: the upstream answers with headers and
\* the StreamingResponse carries response_headers.
RespondHeaders(upstream_headers) ==
  /\ call.stage \in {"started", "snapshot"}
  /\ call' = [call EXCEPT
       !.stage = "responded",
       !.upstream_headers = upstream_headers,
       !.response_headers = response_headers_of(upstream_headers)]
  /\ UNCHANGED othersThanCall

NextHeaders ==
  \/ BuildHeaders
  \/ StartedHeaders
  \/ SnapshotHeaders
  \/ \E upstream_headers \in UpstreamHeaders : RespondHeaders(upstream_headers)

SpecHeaders == InitHeaders /\ [][NextHeaders]_vars

\* ------------------------------------------------------- the request filter
\* apply_filters on its own: a rule list of filter.json with literal replace
\* and remove rules, a body, and the filter applied to the body and to its
\* own result.
Letters == {"a", "b", "c"}
RECURSIVE Texts(_)
Texts(n) ==
  IF n = 0 THEN {<< >>}
  ELSE Texts(n - 1) \cup {Append(t, l) : t \in Texts(n - 1), l \in Letters}

RuleSources == {<< "a" >>, << "b" >>, << "a", "a" >>, << "a", "b" >>}
RuleTargets == {<< >>, << "a" >>, << "b" >>, << "c" >>, << "c", "c" >>}
Rules ==
  {[op |-> "replace", source |-> s, target |-> t] :
     s \in RuleSources, t \in RuleTargets}
    \cup {[op |-> "remove", source |-> s, target |-> << >>] : s \in RuleSources}
RuleLists ==
  {<< >>} \cup {<< r >> : r \in Rules}
          \cup {<< r1, r2 >> : r1 \in Rules, r2 \in Rules}

InitFilter ==
  /\ catalogFile = CatAB
  /\ LbInit({"active-first"}, {1})
  /\ InitBase
  /\ catalogShape = "catalog"
  /\ routing_config = default_routing_config
  /\ \E rules \in RuleLists, data \in Texts(MaxBodyLen) :
       call = [fn |-> "apply_filters", rules |-> rules, data |-> data,
               applied |-> 0, once |-> << >>, twice |-> << >>]

\* proxy(), line 731: filtered_body = apply_request_filter(target_body)
ApplyFilters ==
  /\ call.applied = 0
  /\ call' = [call EXCEPT !.applied = 1,
                          !.once = apply_filters(call.rules, call.data)]
  /\ UNCHANGED othersThanCall

\* The filter applied to a body that is its own result.
ApplyFiltersAgain ==
  /\ call.applied = 1
  /\ call' = [call EXCEPT !.applied = 2,
                          !.twice = apply_filters(call.rules, call.once)]
  /\ UNCHANGED othersThanCall

NextFilter == ApplyFilters \/ ApplyFiltersAgain

SpecFilter == InitFilter /\ [][NextFilter]_vars

\* Requests that finish at the same time: their _write_log threads, in one
\* proxy or in the proxies of the two services, interleave on the log file.
NextLogRace ==
  \/ \E w \in Writers, channel \in UsageChannels : WriterStart(w, channel)
  \/ \E w \in Writers : WriterRead(w)
  \/ \E w \in Writers : WriterRewrite(w)

SpecLogRace == InitUsage /\ [][NextLogRace]_vars

\* One request whose hub calls are suspended at each send of a broadcast,
\* with sockets subscribing and leaving and the cleanup task running
\* meanwhile.
InitBroadcast ==
  /\ catalogFile = CatAB
  /\ LbInit({"active-first"}, {1})
  /\ InitWith(Sockets)
  /\ catalogShape = "catalog"
  /\ routing_config = default_routing_config
  /\ call = NoCall

BroadcastStep ==
  \/ \E s \in Sockets : SendNext(s)
  \/ IterationRaises
  \/ IterationEnds

SuspendedHandlerStep ==
  \/ BuildReadConfigs
  \/ BuildSelect
  \/ BuildLookup
  \/ HubStartBegin
  \/ SendRequest
  \/ \E status_code \in {200} : UpstreamResponds(status_code)
  \/ RequestErrorBegin
  \/ RequestErrorEnd
  \/ \E n \in 0..1 : IterRead(n)
  \/ IterStreaming
  \/ IterResponseChunk
  \/ IterTee
  \/ ClientReceive
  \/ IterEnd
  \/ FinHubBegin
  \/ FinClose
  \/ FinLog
  \/ FinLb
  \/ BroadcastStep

SocketStep ==
  \/ SendReturns
  \/ SendRaises
  \/ \E s \in Sockets : Connect(s) \/ Disconnect(s)

NextBroadcast ==
  \/ Arrive(1)
  \/ SuspendedHandlerStep
  \/ SocketStep
  \/ HubStep

SpecBroadcast == InitBroadcast /\ [][NextBroadcast]_vars

\* The same under the scheduling of the event loop: the handler takes the
\* step it can take, the upstream answers and delivers its body, the client
\* stays and takes each chunk yielded. Nothing obliges a subscriber's socket
\* to take a message or to fail.
SpecBroadcastFair ==
  InitBroadcast /\ [][NextBroadcast]_vars /\ WF_vars(SuspendedHandlerStep)

\* Requests one after the other on a hub that holds at most MaxRecords
\* records, the records of those that ended staying until their cleanup
\* task runs.
NextHubCap ==
  \/ Arrive(MaxRecords + 1)
  \/ BuildReadConfigs
  \/ BuildSelect
  \/ BuildLookup
  \/ \E now \in 1..MaxClock : HubStartCapped(now)
  \/ SendRequest
  \/ \E status_code \in {200} : UpstreamResponds(status_code)
  \/ UpstreamRequestError
  \/ ClientDisconnectBeforeStream
  \/ IterEnd
  \/ FinHub
  \/ FinClose
  \/ FinLog
  \/ FinLb
  \/ HubStep

SpecHubCap == InitBroadcast /\ [][NextHubCap]_vars

\* Requests of one channel that fail at the same time, their results
\* recorded by threads, with the operator resetting counters meanwhile.
InitLbRace ==
  /\ catalogFile = CatAB
  /\ LbInit(LbModes, {MaxThreshold})
  /\ InitCommon

NextLbRace ==
  \/ \E t \in Workers : \/ RequestFails(t, "a")
                        \/ WorkerEnsure(t)
                        \/ WorkerRead(t)
                        \/ WorkerWrite(t)
                        \/ WorkerPersist(t)
  \/ \E config_name \in {"a", None} : ResetFailures(config_name)

SpecLbRace == InitLbRace /\ [][NextLbRace]_vars

\* The same with the sibling proxy handling requests of its own.
NextSibling ==
  \/ \E t \in Workers : \/ RequestFails(t, "a")
                        \/ WorkerEnsure(t)
                        \/ WorkerRead(t)
                        \/ WorkerWrite(t)
                        \/ WorkerPersist(t)
  \/ SiblingRequestFails

SpecSibling == InitLbRace /\ [][NextSibling]_vars

\* One proxy's log inserts, one after the other, with the operator's
\* clear_logs calls running in the UI server's process meanwhile.
NextClearRace ==
  \/ \E channel \in {"a"} : WriterStart("w1", channel)
  \/ WriterRead("w1")
  \/ WriterRewrite("w1")
  \/ ClearLoadLogs
  \/ ClearSaveHistory
  \/ ClearWriteEmpty

SpecClearRace == InitUsage /\ [][NextClearRace]_vars

\* Requests routed in the mode model-mapping, with the operator saving the
\* catalog or the LB settings in the UI server's process meanwhile.
ModelMappingLists ==
  { << ModelRule("config", "a", "m2") >>,
    << ModelRule("config", "b", "m2"), ModelRule("model", "m1", "m3") >>,
    << ModelRule("model", "m1", "m3"), ModelRule("config", "a", "m2") >>,
    << ModelRule("config", " b", "m2") >> }
ModelRoutingConfigs ==
  {[mode |-> "model-mapping", configMappings |-> << >>, modelMappings |-> mappings] :
     mappings \in ModelMappingLists}

InitModelMapping ==
  /\ catalogFile \in {CatEmpty, CatAB, CatScenario4}
  /\ LbInit(LbModes, {1})
  /\ InitBase
  /\ catalogShape = "catalog"
  /\ routing_config \in ModelRoutingConfigs
  /\ call = NoCall

NextModelMapping ==
  \/ \E model \in {NoVal, "m1", "m2"} : ArriveBody(MaxCatRequests, model)
  \/ BuildModelMapping
  \/ RequestStep(LbStatuses)
  \/ \E new_configs \in {CatAB, CatScenario4} : SaveCatalog(new_configs)
  \/ \E mode \in LbModes : SaveLB(mode, 1)

SpecModelMapping == InitModelMapping /\ [][NextModelMapping]_vars

\* ------------------------------------------------------------------- claims
\* The chunk the iterator holds at its yield: not yet taken by the client, or
\* never taken because the client left there.
InFlight ==
  IF pc = "yield" \/ req.outcome = "disconnected" THEN req.chunk ELSE << >>

\* Log entries and hub events of the request in hand.
EntriesOf(request_id) ==
  {i \in 1..Len(trafficLog) : trafficLog[i].request_id = request_id}
TerminalEvents ==
  {i \in 1..Len(hubEvents) : hubEvents[i].type \in {"completed", "failed"}}

C2_LbResultRecordedExactlyOnce ==
  /\ Len(lbCalls) <= 1
  /\ (pc = "done" /\ upstream.count = 1) =>
        /\ Len(lbCalls) = 1
        /\ lbCalls[1].name = req.name

\* C3: in weight-based mode the persisted LB state always has
\* currentFailures[c] >= failureThreshold exactly for the channels c of
\* excludedConfigs. The operator's save of a changed threshold breaks it.
C3_ExcludedIffOverThreshold ==
  lbFile.mode = "weight-based" =>
    \A c \in AllNames :
      (DictGet(lbFile.currentFailures, c, 0) >= lbFile.failureThreshold)
        <=> InList(c, lbFile.excludedConfigs)

\* The order the specification gives the channels: greater configured weight
\* first, the smaller name on a tie.
ConfiguredWeight(file, n) == ConfigGet(file, n).weight
Best(names, file) ==
  CHOOSE n \in names : \A m \in names \ {n} :
    \/ ConfiguredWeight(file, n) > ConfiguredWeight(file, m)
    \/ /\ ConfiguredWeight(file, n) = ConfiguredWeight(file, m)
       /\ NameOrd(n) < NameOrd(m)
FirstByName(names) ==
  CHOOSE n \in names : \A m \in names : NameOrd(n) <= NameOrd(m)
Eligible(configs, lb) ==
  {n \in ConfigNames(configs) :
     /\ DictGet(lb.currentFailures, n, 0) < lb.failureThreshold
     /\ ~InList(n, lb.excludedConfigs)}

\* The request before the one in hand: its log entry, if it left one.
PreviousEntries == EntriesOf(req.id - 1)

\* C4: failover in weight-based mode, the operator not intervening. When a
\* channel has been excluded, a request is routed to the first eligible
\* channel in the order (-weight, name); an excluded channel is not selected
\* while another channel is eligible; a channel whose last request ended 2xx
\* is selected again. The code orders the channels by name alone (C5), so
\* the failover goes to the wrong channel.
C4_FailoverInWeightOrder ==
  (/\ pc = "build_lookup"
   /\ req.lbSeen.mode = "weight-based"
   /\ req.configs # << >>
   /\ nops = 0) =>
     LET eligible == Eligible(req.configs, req.lbSeen)
     IN /\ (eligible # {} /\ req.lbSeen.excludedConfigs # << >>) =>
              /\ req.name \in eligible
              /\ req.name = Best(eligible, req.fileSeen)
        /\ \A i \in PreviousEntries :
              (IsSuccess(trafficLog[i].status_code)
               /\ trafficLog[i].channel \in eligible
               /\ req.lbSeen.excludedConfigs = << >>)
                 => req.name = trafficLog[i].channel

\* C5: the weighted selector returns the eligible channel (failures below
\* the threshold, not excluded) of greatest configured weight, the smaller
\* name on a tie; when none is eligible, the active name if the catalog has
\* it, else the first channel by name. The catalog the proxy reads carries
\* no weight, so the code returns the eligible channel of smallest name.
C5_SelectsGreatestWeight ==
  (/\ pc = "build_lookup"
   /\ req.lbSeen.mode = "weight-based"
   /\ req.configs # << >>) =>
     LET eligible == Eligible(req.configs, req.lbSeen)
         active_config == load_configs_from_file(req.fileSeen).active
     IN req.name =
          IF eligible # {} THEN Best(eligible, req.fileSeen)
          ELSE IF active_config \in ConfigNames(req.configs) THEN active_config
          ELSE FirstByName(ConfigNames(req.configs))

\* C6: the channel a request is built for is a key of the catalog as read,
\* a reload between selection and lookup included; the request fails as
\* misconfigured only if the catalog has no entry to resolve. The code
\* fails it when the active name it read has left a catalog that still
\* holds a channel.
C6_ResolvesWithinCatalog ==
  /\ pc \in {"hub_start", "send", "await_response"} =>
        /\ req.name \in ConfigNames(req.configs)
        /\ req.base_url = ConfigGet(req.configs, req.name).base_url
  /\ req.outcome = "no_active_config" => req.configs = << >>

\* C7: a client request makes at most one upstream request, and makes it to
\* the channel build_target_param chose; neither an error nor a non-2xx
\* status makes the proxy send again or to another channel, in either mode.
C7_AtMostOneUpstreamRequest ==
  /\ upstream.count <= 1
  /\ upstream.count = 1 =>
        /\ req.name \in ConfigNames(req.configs)
        /\ upstream.target = ConfigGet(req.configs, req.name).base_url
  /\ \A i \in 1..Len(lbCalls) : lbCalls[i].name = req.name

\* C7 witness: in weight-based mode with a second channel in the catalog,
\* a request answered 500 ended having been sent once.
C7_Witness ==
  /\ pc = "done"
  /\ upstream.count = 1
  /\ upstream.status = 500
  /\ req.lbSeen.mode = "weight-based"
  /\ Len(req.configs) = 2
  /\ upstream.target = "https://a"

\* C8: when the client disconnects while the body streams, the upstream
\* response is closed, the hub emits a terminal failed event (499 or the
\* last status known) and a log entry with the partial response is written.
\* The code emits completed when the upstream status was below 400.
C8_DisconnectEndsFailed ==
  (pc = "done" /\ req.outcome = "disconnected") =>
    /\ upstream.closed
    /\ TerminalEvents # {}
    /\ \A i \in TerminalEvents :
          /\ hubEvents[i].type = "failed"
          /\ hubEvents[i].request_id = req.id
          /\ hubEvents[i].status_code \in {499, req.status_code}
    /\ \E i \in EntriesOf(req.id) :
          trafficLog[i].response_content = req.collected

C10_MisconfiguredLeavesNoTrace ==
  req.outcome = "no_active_config" =>
    /\ client.status = 500
    /\ client.body = "error"
    /\ upstream.count = 0
    /\ EntriesOf(req.id) = {}
    /\ req.id \notin DOMAIN activeRequests
    /\ hubEvents = << >>
    /\ lbCalls = << >>
    /\ lbFile = req.lbAtArrival

\* C10 witness: a request on an empty catalog ended with the 500.
C10_Witness ==
  /\ pc = "done"
  /\ req.outcome = "no_active_config"
  /\ catalogFile = CatEmpty
  /\ req.configs = << >>
  /\ client.status = 500
  /\ nreq = 2

\* Hub events of the request in hand, by kind.
EventsOf(type, status) ==
  {i \in 1..Len(hubEvents) :
     hubEvents[i].type = type /\ hubEvents[i].status = status}

\* C11: the hub events of a request are ordered: started comes first and
\* before the upstream is asked, progress STREAMING precedes every progress
\* with a response_delta, the terminal event is the last event and precedes
\* the request's log entry, and a request that started has exactly one
\* terminal event when its handler is through. The code emits no terminal
\* event for a request whose response stream is never consumed.
C11_HubEventsOrdered ==
  /\ upstream.count > 0 => EventsOf("started", "PENDING") = {1}
  /\ \A i \in EventsOf("progress", "delta") :
        \E j \in EventsOf("progress", "STREAMING") : j < i
  /\ Cardinality(TerminalEvents) <= 1
  /\ \A i \in TerminalEvents : i = Len(hubEvents)
  /\ EntriesOf(req.id) # {} => TerminalEvents # {}
  /\ (pc = "done" /\ hubEvents # << >>) => Cardinality(TerminalEvents) = 1

\* Messages of a connection, by request and type.
ReceivedOf(s, request_id, types) ==
  {i \in 1..Len(received[s]) :
     received[s][i].request_id = request_id /\ received[s][i].type \in types}

\* C12: a subscriber that has received the terminal event of a request has
\* received exactly one started event of it, also when it connected while
\* the request was in flight. The code sends such a subscriber a snapshot
\* message and never a started event.
C12_OneStartedPerTerminal ==
  \A s \in Subscribers : \A request_id \in 1..MaxRequests :
    ReceivedOf(s, request_id, {"completed", "failed"}) # {}
      => Cardinality(ReceivedOf(s, request_id, {"started"})) = 1

\* C13: the snapshot a subscriber is sent on connect holds exactly the
\* records of the hub that are PENDING or STREAMING. The code sends every
\* record held, those kept for their retention delay after COMPLETED or
\* FAILED included.
C13_SnapshotIsNonTerminal ==
  [][\A s \in Subscribers :
       (s \notin connections /\ s \in connections') =>
          received'[s] = send_snapshot(activeRequests,
            {request_id \in DOMAIN activeRequests :
               activeRequests[request_id].status \in {"PENDING", "STREAMING"}})]_vars

\* C14: every record request_started creates reaches COMPLETED or FAILED and
\* is then removed, so that none stays for ever, also when the response
\* stream is never consumed. The code leaves the record of such a request
\* PENDING with no cleanup task.
C14_RecordsAreRemoved ==
  \A request_id \in 1..MaxRequests :
    (request_id \in DOMAIN activeRequests)
      ~> (request_id \notin DOMAIN activeRequests)

\* C15: the characters held in a record's response_chunks never exceed the
\* bound plus one truncation marker, and the marker is there at most once.
\* The code appends a whole chunk whenever the length is below the bound.
C15_ResponseChunksBounded ==
  /\ current_length(record.response_chunks)
       <= max_response_length + truncation_marker_len
  /\ Cardinality({i \in 1..Len(record.response_chunks) :
                    record.response_chunks[i].marker}) <= 1
  /\ record.response_truncated =>
       record.response_chunks[Len(record.response_chunks)].marker

\* C16: the traffic log never holds more than logLimit entries, whatever
\* the inserts, the changes of logLimit, the clears and the failed writes.
\* The fallback append of a failed write adds to a full log.
C16_LogWithinLimit == Len(trafficLog) <= logLimit

\* Usage reported for a channel: the history file plus the live log.
LogSum(logs, channel) == DictGet(aggregate_usage_from_logs(logs), channel, 0)
Reported(channel) == DictGet(history, channel, 0) + LogSum(trafficLog, channel)
ReportedAfter(channel) ==
  DictGet(history', channel, 0) + LogSum(trafficLog', channel)

\* C17: an insert into a log that holds logLimit entries leaves the logLimit
\* entries inserted last, in the order of insertion, and adds the usage of
\* the entry evicted once to the history of its channel.
C17_InsertEvictsOldest ==
  [][(nreq' = nreq + 1 /\ Len(trafficLog) = logLimit) =>
       /\ Len(trafficLog') = logLimit
       /\ \A i \in 1..(logLimit - 1) : trafficLog'[i] = trafficLog[i + 1]
       /\ trafficLog'[logLimit].request_id = nreq'
       /\ \A ch \in UsageChannels \cup {"unknown"} :
            DictGet(history', ch, 0) = DictGet(history, ch, 0)
              + (IF ChannelOf(trafficLog[1]) = ch THEN trafficLog[1].usage ELSE 0)]_vars

\* C17 witness: the third entry was written to a log of two, its first
\* entry, of channel a with usage 2, is in the history and the log holds the
\* second and the third.
C17_Witness ==
  /\ nops = 0
  /\ nreq = 3
  /\ logLimit = 2
  /\ Len(trafficLog) = 2
  /\ trafficLog[1].request_id = 2
  /\ trafficLog[2].request_id = 3
  /\ DOMAIN history = {"a"}
  /\ history["a"] = 2

\* C18: the usage reported for a channel changes only by the usage of an
\* entry newly inserted: an entry that leaves the log by the cap, by a
\* lowered logLimit or by a clear of the log takes its usage to the history.
\* (Clear-usage and catalog saves are other operations.) The trim after
\* logLimit is lowered drops entries without touching the history.
C18_ReportedUsageKept ==
  [][(catalogFile' = catalogFile
      /\ ~(history' = EmptyDict /\ trafficLog' = << >>)) =>
       \A ch \in UsageChannels :
         ReportedAfter(ch) = Reported(ch)
           + (IF nreq' = nreq + 1 /\ trafficLog'[Len(trafficLog')].channel = ch
              THEN trafficLog'[Len(trafficLog')].usage ELSE 0)]_vars

\* C19: a metric of a channel in the history file never decreases (a metric
\* not yet there counts as zero), clear-usage apart, whatever usage payload
\* the upstream returned. The code takes a negative number of a payload as
\* it is and adds it.
C19_HistoryNonDecreasing ==
  [][\A ch \in DOMAIN history' :
       history'[ch] >= DictGet(history, ch, 0)]_vars

\* C20: a catalog save that renames channels keeps the usage reported: for
\* each rename old -> new, what was reported for old before the save is
\* what is reported for new after it, renames that chain or exchange names
\* included. The code renames the history one rename after the other on the
\* same bucket, so that such renames run into each other.
C20_RenameKeepsUsage ==
  [][catalogFile' # catalogFile =>
       LET rename_map == detect_config_renames(catalogFile, catalogFile')
       IN \A old_name \in DOMAIN rename_map :
            ReportedAfter(rename_map[old_name]) = Reported(old_name)]_vars

\* C29: whatever chunks the upstream has produced, the capture buffer of the
\* tee is the first min(total, max_logged_response_bytes) bytes of the
\* stream, response_bytes is the number of bytes produced, and
\* response_truncated is set exactly when that number exceeds the bound.
C29_TeeIsBoundedPrefix ==
  /\ req.collected = Prefix(upstream.produced, max_logged_response_bytes)
  /\ req.total_response_bytes = Len(upstream.produced)
  /\ req.response_truncated
       <=> Len(upstream.produced) > max_logged_response_bytes

\* C29 witness: a stream of more bytes than the bound has ended; the buffer
\* is full and the flag is set.
C29_Witness ==
  /\ pc = "done"
  /\ Len(upstream.produced) > max_logged_response_bytes
  /\ Len(req.collected) = max_logged_response_bytes
  /\ req.response_truncated

\* The channels of a catalog file as the manager loads them, and those of
\* them flagged active.
LoadedNames(data) == ConfigNames(load_entries(data))
FlaggedNames(data) ==
  {n \in LoadedNames(data) : ConfigGet(data, n).active}

\* What a read of active_config returns from a file and a cache.
ActiveRead(data, cache) ==
  IF cache.fresh THEN cache.active ELSE load_configs_from_file(data).active

SmallestName(names) ==
  IF names = {} THEN None
  ELSE CHOOSE n \in names : \A m \in names : NameOrd(n) <= NameOrd(m)

\* C26: the active channel the manager holds for a catalog file with at
\* most one channel flagged active is the flagged channel, and with none
\* flagged the smallest name of the catalog, whatever the order of the file.
\* The code takes the first key of the file instead.
C26_ActiveIsFlaggedOrSmallest ==
  (catalogShape = "catalog" /\ cmCache.fresh
   /\ Cardinality(FlaggedNames(catalogFile)) <= 1) =>
     cmCache.active =
       IF FlaggedNames(catalogFile) # {}
       THEN CHOOSE n \in FlaggedNames(catalogFile) : TRUE
       ELSE SmallestName(LoadedNames(catalogFile))

\* C27: a request that found a catalog file holding no catalog (no JSON, or
\* JSON of another shape) has left the file as {} and has ended as
\* routing-misconfigured with status 500. The code resets the file for bytes
\* that are no JSON only; JSON of another shape raises out of the handler.
C27_UnloadableFileIsReset ==
  (pc = "done" /\ req.shapeSeen # "catalog") =>
     /\ catalogShape = "catalog"
     /\ catalogFile = CatEmpty
     /\ req.outcome = "no_active_config"
     /\ client.status = 500
     /\ client.body = "error"

\* The first mapping that holds of the request in hand, if any: its index.
FirstMapping(holds(_)) ==
  {i \in 1..Len(routing_config.configMappings) :
     holds(i) /\ \A j \in 1..(i - 1) : ~holds(j)}

\* The request in hand went, or goes, to the named channel with its body as
\* it came, and its log entries name the channel; seen once the request has
\* been sent.
RoutedTo(config) ==
  /\ upstream.count = 1 =>
       /\ upstream.target = ConfigGet(catalogFile, config).base_url
       /\ upstream.body_model = req.body_model
  /\ \A i \in 1..Len(trafficLog) :
       trafficLog[i].request_id = req.id => trafficLog[i].channel = config
  /\ pc \in {"hub_start", "send"} => req.name = config

\* The config_override is a name of the catalog, or there is none.
OverrideInCatalog ==
  req.config_override # None => req.config_override \in LoadedNames(catalogFile)

CredentialHeaders(headers) ==
  [k \in {x \in DOMAIN headers : lower(x) \in {"authorization", "x-api-key"}}
     |-> headers[k]]
ChannelCredentials(config_data) ==
  [k \in (IF Truthy(config_data.api_key) THEN {"x-api-key"} ELSE {})
           \cup (IF Truthy(config_data.auth_token) THEN {"authorization"} ELSE {})
     |-> IF k = "x-api-key" THEN config_data.api_key
         ELSE "Bearer " \o config_data.auth_token]

\* C21: the credential headers of the upstream request are those of the
\* channel alone: x-api-key with the channel's api_key exactly when the
\* channel has one, authorization with Bearer and the channel's auth_token
\* exactly when the channel has one, and no authorization or x-api-key header
\* of the client under any case of the name; so requests that differ in the
\* client's own credentials only have the same upstream credential headers.
C21_CredentialsFromChannelOnly ==
  call.stage # "arrived" =>
    CredentialHeaders(call.target_headers) = ChannelCredentials(call.config_data)

\* C21 witness: the client sent an authorization and an X-Api-Key of its
\* own, the channel has a token and no api key: the upstream request carries
\* the channel's bearer token and no api key.
C21_Witness ==
  /\ call.stage = "built"
  /\ "authorization" \in DOMAIN call.original_headers
  /\ call.original_headers["authorization"] = "Bearer client-2"
  /\ "X-Api-Key" \in DOMAIN call.original_headers
  /\ call.config_data.api_key = NoVal
  /\ DictGet(call.target_headers, "authorization", NoVal) = "Bearer tok-a"
  /\ "X-Api-Key" \notin DOMAIN call.target_headers
  /\ "accept" \in DOMAIN call.target_headers

\* The values of the authorization, x-api-key and cookie headers of the
\* client's request and of the upstream request.
SensitiveValues(headers) ==
  {headers[k] : k \in {x \in DOMAIN headers :
                         lower(x) \in {"authorization", "x-api-key", "cookie"}}}

\* C22: the headers of the hub's record, of its started event and of its
\* snapshot hold no value of an authorization, x-api-key or cookie header,
\* whatever the case of the name: each such header holds the hidden marker.
C22_HubHidesCredentials ==
  \A headers \in {call.hub_headers, call.event_headers, call.snapshot_headers} :
    \A k \in DOMAIN headers :
      /\ headers[k] \notin SensitiveValues(call.original_headers)
                             \cup SensitiveValues(call.target_headers)
      /\ lower(k) \in {"authorization", "x-api-key", "cookie"}
           => headers[k] = hidden_marker

\* C22 witness: a snapshot of a request that carries the channel's token
\* and the client's Cookie shows both names with the marker.
C22_Witness ==
  /\ call.stage = "snapshot"
  /\ DictGet(call.target_headers, "authorization", NoVal) = "Bearer tok-a"
  /\ "Cookie" \in DOMAIN call.target_headers
  /\ call.snapshot_headers["Cookie"] = hidden_marker
  /\ call.snapshot_headers["authorization"] = hidden_marker
  /\ call.event_headers["accept"] = "json"

\* C23: the headers of the response to the client are the upstream's
\* headers without connection and transfer-encoding, under any case of the
\* names. The code strips no header.
C23_HopByHopStripped ==
  call.stage = "responded" =>
    call.response_headers =
      DictWithout(call.upstream_headers, {"connection", "transfer-encoding"})

\* text holds part as a contiguous piece
Contains(text, part) ==
  \E i \in 0..(Len(text) - Len(part)) : SubSeq(text, i + 1, i + Len(part)) = part

\* C28 as stated: for a list of literal replace and remove rules none of
\* whose targets contains its own source, the filter applied twice gives
\* what it gives applied once. It does not: a replacement or a removal can
\* join bytes into a new occurrence of a source, and a later rule's target
\* can hold an earlier rule's source.
C28_FilterIdempotent ==
  (call.applied = 2
   /\ \A i \in 1..Len(call.rules) :
        ~Contains(IF call.rules[i].op = "remove" THEN << >>
                  ELSE call.rules[i].target, call.rules[i].source)) =>
     call.twice = call.once

\* C28 amended: for a list of literal replace and remove rules whose
\* sources are single letters and whose targets hold no source of any rule
\* of the list, the filter applied twice gives what it gives applied once.
C28_SingleLetterFilterIdempotent ==
  (call.applied = 2
   /\ \A i \in 1..Len(call.rules) :
        /\ Len(call.rules[i].source) = 1
        /\ \A j \in 1..Len(call.rules) :
             ~Contains(IF call.rules[j].op = "remove" THEN << >>
                       ELSE call.rules[j].target, call.rules[i].source)) =>
     call.twice = call.once

\* C28 witness: two rules with the sources a and b, one of them with a
\* target of its own, changed a body holding both letters twice over, and
\* the second application changed nothing.
C28_Witness ==
  /\ call.applied = 2
  /\ call.rules = << [op |-> "replace", source |-> << "a" >>, target |-> << "c", "c" >>],
                     [op |-> "remove", source |-> << "b" >>, target |-> << >>] >>
  /\ call.data = << "a", "b", "a" >>
  /\ call.once = << "c", "c", "c", "c" >>
  /\ call.twice = call.once

\* C30: the updates of the traffic log are serialised: once the writers of
\* concurrent completions are done, every entry written is in the log
\* unless the cap evicted it; the log holds the last min(n, logLimit) of the
\* n entries, none lost to an interleaved read and rewrite. The code takes
\* no lock around the read and the rewrite.
C30_NoLogEntryLost ==
  (\A w \in Writers : writers[w].pc = "idle") =>
     /\ Len(trafficLog) = (IF nreq < logLimit THEN nreq ELSE logLimit)
     /\ \A i, j \in 1..Len(trafficLog) :
          trafficLog[i].request_id = trafficLog[j].request_id => i = j

\* The step in which a broadcast_event call of the request handler ends.
BroadcastEnds == pc = "broadcast" /\ pc' # "broadcast"

\* C31: a broadcast delivers the event to every subscriber that was
\* connected when it began, stays connected and whose send does not fail;
\* when it ends exactly the subscribers whose send failed are removed; and
\* subscribers connecting or disconnecting while it is suspended at a send
\* do not change the handling of the request: after request_completed the
\* record has its cleanup task. The code iterates the live set, so a change
\* of its size ends the broadcast with RuntimeError.
C31_BroadcastReachesAll ==
  [][BroadcastEnds =>
       /\ \A s \in sending.started \ (sending.left \cup sending.disconnected) :
            s \in sending.delivered
       /\ connections' = connections \ sending.disconnected
       /\ sending.caller = "request_completed" /\ req.id \in DOMAIN activeRequests
            => activeRequests'[req.id].cleanup]_vars

\* C32: a subscriber that never takes its next message cannot stop a
\* request: with the upstream and the client fair, a request announced to
\* the hub ends with every chunk read from the upstream forwarded to the
\* client, its terminal event handed to the hub and its entry in the log.
\* The code awaits each send_text on the request path, so the handler waits
\* with the subscriber.
C32_SlowSubscriberCannotStop ==
  (pc = "hub_start") ~>
     /\ client.status = 500 \/ client.bytes = upstream.produced
     /\ TerminalEvents # {}
     /\ EntriesOf(req.id) # {}

\* The start_time of a record when request_started stores the record of the
\* request in hand: the new record's is in the started event.
StartTimeAtStart(request_id) ==
  IF request_id = req.id THEN hubEvents'[Len(hubEvents')].start_time
  ELSE activeRequests[request_id].start_time

\* C33: the hub never holds more records than its cap (100 in the proxy)
\* where another task can see it; when a new request exceeds the cap, the
\* records evicted are those with the oldest start_time, and the record of
\* the request just started is kept. The code orders by the wall clock's
\* reading alone, so a new record whose reading is no later than the others'
\* is the one evicted.
C33_HubCapEvictsOldest ==
  [][/\ Cardinality(DOMAIN activeRequests') <= MaxRecords
     /\ pc = "hub_start" /\ pc' = "send" =>
          LET held == DOMAIN activeRequests \cup {req.id}
              kept == DOMAIN activeRequests'
          IN /\ \A evicted \in held \ kept : \A k \in kept :
                  StartTimeAtStart(evicted) <= StartTimeAtStart(k)
             /\ req.id \in kept]_vars

\* C34: excludedConfigs of the service holds only names of channels of the
\* service's current catalog, after every save of the catalog and every
\* later update of the LB state, also when a request that was in flight on a
\* channel when the channel was deleted or renamed fails afterwards. The
\* code records the failure under the name the request was built with,
\* whatever the catalog holds by then.
C34_ExcludedWithinCatalog ==
  \A i \in 1..Len(lbFile.excludedConfigs) :
    lbFile.excludedConfigs[i] \in ConfigNames(catalogFile)


\* Every _record_lb_result thread has returned.
WorkersIdle == \A t \in Workers : lbWorkers[t].pc = "idle"

\* C36: in weight-based mode the failures of k requests on one channel,
\* recorded by concurrent threads, raise the channel's persisted count by
\* exactly k (as long as no reset was written), and no thread persists over
\* a version of the LB file it has not read, so that an operator's reset is
\* never overwritten by counters computed before it.
C36_NoLbUpdateLost ==
  [][/\ (WorkersIdle' /\ nops' = 0 /\ lbFile'.mode = "weight-based")
          => DictGet(lbFile'.currentFailures, "a", 0) = nreq'
     /\ \A t \in Workers :
          (lbWorkers[t].pc = "persist" /\ lbWorkers'[t].pc = "idle") => lbFresh]_vars


\* The log entries of the sibling proxy.
SiblingEntries(logs) ==
  { logs[i] : i \in { j \in 1..Len(logs) : ServiceOf(logs[j]) = sibling_name } }

\* C35: a request handled by one proxy leaves the sibling's persisted state
\* alone: its log insert removes or alters no log entry of the sibling, and
\* its persisting of the LB counters leaves the sibling's section of the LB
\* file as last written.
C35_SiblingStateUntouched ==
  [][/\ nreq' # nreq => SiblingEntries(trafficLog) \subseteq SiblingEntries(trafficLog')
     /\ (\E t \in Workers : lbWorkers[t].pc = "persist" /\ lbWorkers'[t].pc = "idle")
          => siblingLb'.file = siblingLb.file]_vars


\* No log insert and no clear_logs call is under way.
LogQuiescent == writers["w1"].pc = "idle" /\ clearing.pc = "idle"

\* C37: the usage of every logged entry is counted in exactly one tier: once
\* the inserts and the clears that interleaved have returned, the usage in
\* the history and in the live log together is that of the entries
\* inserted, none counted in both and none in neither.
C37_CountedInOneTier ==
  LogQuiescent =>
    DictGet(history, "a", 0)
      + DictGet(aggregate_usage_from_logs(trafficLog), "a", 0) = nreq


\* C38: in the mode model-mapping a body rewritten by a rule of source_type
\* config is sent to the channel the rule was matched against, also when
\* the LB state or the catalog changes between the two selections made
\* while the request is built.
C38_RewrittenForChannelSent ==
  (upstream.count > 0 /\ req.mapped_for # None) => req.name = req.mapped_for


\* C39: activating a channel through the proxy's catalog manager changes
\* only the active flags: the file holds the same channel names afterwards,
\* each with the base_url, auth_token, api_key and weight it had.
C39_ActivationKeepsChannels ==
  [][(nops' = nops + 1 /\ catalogShape = "catalog" /\ call'.result) =>
       /\ ConfigNames(catalogFile') = ConfigNames(catalogFile)
       /\ \A n \in ConfigNames(catalogFile) \cap ConfigNames(catalogFile') :
            LET old == ConfigGet(catalogFile, n)
                new == ConfigGet(catalogFile', n)
            IN /\ new.base_url = old.base_url
               /\ new.auth_token = old.auth_token
               /\ new.api_key = old.api_key
               /\ new.weight = old.weight]_vars


\* C40: the hub's terminal classification of a streamed request is the load
\* balancer's: the request ends with failed, its record FAILED, exactly when
\* its status counts as a failure in the LB bookkeeping, that is when it is
\* outside [200, 300).
C40_HubAgreesWithLb ==
  req.outcome = "streamed" =>
    /\ \A i \in TerminalEvents :
         /\ hubEvents[i].type = "failed" <=> ~IsSuccess(hubEvents[i].status_code)
         /\ hubEvents[i].status = "FAILED" <=> ~IsSuccess(hubEvents[i].status_code)
    /\ (TerminalEvents # {} /\ req.id \in DOMAIN activeRequests) =>
         (activeRequests[req.id].status = "FAILED" <=> ~IsSuccess(req.status_code))

====
